---- MODULE Spec2Model ----
(***************************************************************************)
(* The ST7735S panel driver of pi_cam (src/display_driver.py), as a state  *)
(* machine: one action per public method of ST7735Display.  A method is a  *)
(* transformer of the driver record d (the fields of the instance plus the *)
(* hardware it holds); a Python exception is the field exc, and every      *)
(* primitive step is skipped once exc is set, which is how a raise cuts    *)
(* the rest of the method short.                                           *)
(*                                                                         *)
(* The panel of the source is 128 x 128; the model checks a WIDTH x HEIGHT *)
(* panel, the two being bounds of the model.  Everything else (opcodes,    *)
(* chunk size, delays, pixel packing) is as in the source.                 *)
(***************************************************************************)
EXTENDS Integers, Sequences, FiniteSets, TLC

\* ---------------------------------------------------------------- bounds
WIDTH == 4
HEIGHT == 4
MaxCalls == 3
MaxSignals == 2

\* ------------------------------------------------------------- constants
\* self.WIDTH and self.HEIGHT as the source has them; WIDTH and HEIGHT above
\* are their scaled stand-ins.
FullWidth == 128
FullHeight == 128
chunk_size == 4096
RAMWR == 44
DefaultSize == 10

Cols == 0..(WIDTH - 1)
Rows == 0..(HEIGHT - 1)

None == <<>>
Black == <<0, 0, 0>>
White == <<255, 255, 255>>
Red == <<255, 0, 0>>
Teal == <<10, 200, 77>>

Min(a, b) == IF a < b THEN a ELSE b
Max(a, b) == IF a > b THEN a ELSE b

\* ------------------------------------------------------------ PIL images
\* An image is its rows: img[y][x] is the RGB triple at column x, row y.
NewImage(w, h, color) == [y \in 0..(h - 1) |-> [x \in 0..(w - 1) |-> color]]

ImgH(img) == Cardinality(DOMAIN img)
ImgW(img) == IF ImgH(img) = 0 THEN 0 ELSE Cardinality(DOMAIN img[0])

\* ImageDraw.rectangle([(x0, y0), (x1, y1)], fill, outline): the box includes
\* both corners; what falls outside the image is dropped.  The outline, when
\* given, is the one-pixel border of the box.
\* A release that accepts a box whose corners are out of order (before 9.5)
\* draws it with the corners put in order.
Rectangle(img, x0, y0, x1, y1, fill, outline) ==
    [y \in DOMAIN img |-> [x \in DOMAIN img[y] |->
        IF /\ Min(x0, x1) <= x /\ x <= Max(x0, x1)
           /\ Min(y0, y1) <= y /\ y <= Max(y0, y1)
        THEN IF outline # None /\ (x = x0 \/ x = x1 \/ y = y0 \/ y = y1)
             THEN outline ELSE fill
        ELSE img[y][x]]]

\* ImageDraw.ellipse([(x0, y0), (x1, y1)], fill): the pixels of the box within
\* the ellipse inscribed in it (doubled coordinates keep the test in integers).
Ellipse(img, x0, y0, x1, y1, fill) ==
    LET a == x1 - x0
        b == y1 - y0
    IN [y \in DOMAIN img |-> [x \in DOMAIN img[y] |->
        IF /\ x0 <= x /\ x <= x1 /\ y0 <= y /\ y <= y1
           /\ (2 * x - x0 - x1) * (2 * x - x0 - x1) * b * b
              + (2 * y - y0 - y1) * (2 * y - y0 - y1) * a * a <= a * a * b * b
        THEN fill ELSE img[y][x]]]

\* ImageDraw.line for an axis-parallel segment of the given width: the pixels
\* of the segment, widened downwards (horizontal) or rightwards (vertical).
Line(img, x1, y1, x2, y2, fill, width) ==
    [y \in DOMAIN img |-> [x \in DOMAIN img[y] |->
        IF \/ /\ y1 = y2 /\ Min(x1, x2) <= x /\ x <= Max(x1, x2)
              /\ y1 <= y /\ y < y1 + Max(width, 1)
           \/ /\ x1 = x2 /\ Min(y1, y2) <= y /\ y <= Max(y1, y2)
              /\ x1 <= x /\ x < x1 + Max(width, 1)
        THEN fill ELSE img[y][x]]]

\* ImageDraw.text: glyph shapes belong to the font; the model paints the cell
\* box of the string, one cell of (size / 2) x size pixels per character.
Text(img, x, y, nchars, font, fill) ==
    [yy \in DOMAIN img |-> [xx \in DOMAIN img[yy] |->
        IF /\ x <= xx /\ xx < x + nchars * (font \div 2)
           /\ y <= yy /\ yy < y + font
        THEN fill ELSE img[yy][xx]]]

\* Image.paste(src, (x, y)): the source lands with its corner at (x, y); the
\* part outside the destination is clipped away.
Paste(img, src, x, y) ==
    [yy \in DOMAIN img |-> [xx \in DOMAIN img[yy] |->
        IF /\ x <= xx /\ xx < x + ImgW(src)
           /\ y <= yy /\ yy < y + ImgH(src)
        THEN src[yy - y][xx - x] ELSE img[yy][xx]]]

\* Mutant of GetData: the pixels column by column.
GetData_column_major(img) ==
    [i \in 1..(ImgW(img) * ImgH(img)) |->
        img[(i - 1) % ImgH(img)][(i - 1) \div ImgH(img)]]

\* list(image.getdata()): the pixels in row-major order.
GetData(img) ==
    [i \in 1..(ImgW(img) * ImgH(img)) |->
        img[(i - 1) \div ImgW(img)][(i - 1) % ImgW(img)]]

\* ------------------------------------------------------------ bit arithmetic
Shl(a, n) == a * (2 ^ n)
Shr(a, n) == a \div (2 ^ n)

RECURSIVE BitOr(_, _)
BitOr(a, b) ==
    IF a = 0 THEN b
    ELSE IF b = 0 THEN a
    ELSE (IF a % 2 = 1 \/ b % 2 = 1 THEN 1 ELSE 0) + 2 * BitOr(a \div 2, b \div 2)

RECURSIVE BitAnd(_, _)
BitAnd(a, b) ==
    IF a = 0 \/ b = 0 THEN 0
    ELSE (IF a % 2 = 1 /\ b % 2 = 1 THEN 1 ELSE 0) + 2 * BitAnd(a \div 2, b \div 2)

\* ------------------------------------------------------------- color codec
\* Mutant of rgb565: green cut to five bits, as for the red and blue fields.
rgb565_green5(pixel) ==
    LET r565 == Shl(Shr(pixel[1], 3), 11)
        g565 == Shl(Shr(pixel[2], 3), 5)
        b565 == Shr(pixel[3], 3)
    IN BitOr(BitOr(r565, g565), b565)

\* update(): r565 | g565 | b565 of one pixel.
rgb565(pixel) ==
    LET r565 == Shl(Shr(pixel[1], 3), 11)
        g565 == Shl(Shr(pixel[2], 2), 5)
        b565 == Shr(pixel[3], 3)
    IN BitOr(BitOr(r565, g565), b565)

\* update(): the two bytes appended for one pixel, high byte first.
encode(pixel) ==
    LET v == rgb565(pixel)
    IN <<BitAnd(Shr(v, 8), 255), BitAnd(v, 255)>>

\* update(): the loop over the pixels, appending two bytes for each.
RECURSIVE rgb565_data(_)
rgb565_data(pixels) ==
    IF pixels = <<>> THEN <<>>
    ELSE encode(Head(pixels)) \o rgb565_data(Tail(pixels))

\* ------------------------------------------------------------ the hardware
NoExc == "none"
OSError == "OSError"
RuntimeError == "RuntimeError"
ValueError == "ValueError"

\* One entry of the log of what a call did to the hardware.
Ev(k, pin, v, data) == [k |-> k, pin |-> pin, v |-> v, data |-> data]

\* GPIO.output(pin, level): RuntimeError when the environment has the pin
\* unusable (d.env), as RPi.GPIO does for a channel that is not set up.
gpio_output(d, pin, level) ==
    IF d.exc # NoExc THEN d
    ELSE IF pin \in d.env
    THEN [d EXCEPT !.exc = RuntimeError,
                   !.bus = Append(@, Ev("gpio_error", pin, level, <<>>))]
    ELSE [d EXCEPT !.bus = Append(@, Ev("gpio", pin, level, <<>>)),
                   !.dc = IF pin = "DC" THEN level ELSE @,
                   !.rst = IF pin = "RST" THEN level ELSE @]

\* spi.xfer2(data): raises OSError on a closed handle, and on the write the
\* environment fails (d.fail counts down to it); otherwise the bytes go out.
\* Of a write that fails on an open handle the first d.got bytes have gone
\* out all the same (the v of its log entry); a closed handle sends nothing.
xfer2(d, data) ==
    IF d.exc # NoExc THEN d
    ELSE IF ~d.spi
    THEN [d EXCEPT !.exc = OSError,
                   !.bus = Append(@, Ev("xfer_error", "", 0, data))]
    ELSE IF d.fail = 1
    THEN [d EXCEPT !.exc = OSError, !.fail = 0,
                   !.bus = Append(@, Ev("xfer_error", "",
                                        Min(d.got, Len(data)), data))]
    ELSE [d EXCEPT !.bus = Append(@, Ev("xfer", "", 0, data)),
                   !.fail = IF @ > 1 THEN @ - 1 ELSE @]

\* time.sleep(seconds), in milliseconds
sleep(d, ms) ==
    IF d.exc # NoExc THEN d
    ELSE [d EXCEPT !.bus = Append(@, Ev("sleep", "", ms, <<>>))]

\* spi.close(): OSError when the environment fails the close (d.env).
spi_close(d) ==
    IF d.exc # NoExc THEN d
    ELSE IF "close" \in d.env
    THEN [d EXCEPT !.exc = OSError,
                   !.bus = Append(@, Ev("close_error", "", 0, <<>>))]
    ELSE [d EXCEPT !.spi = FALSE, !.bus = Append(@, Ev("close", "", 0, <<>>))]

\* ------------------------------------------------- the panel controller
\* The ST7735S at the other end of the bus, as far as the driver's commands
\* go: the column and row window (CASET, RASET), the pixel format (COLMOD),
\* the opcode in effect, its parameter bytes still incomplete, the pixels
\* written since the last RAMWR, the display memory in the order RAMWR
\* fills the window (-1: never written in 16-bit format), and the levels on
\* its data/command and reset inputs.
SWRESET == 1
CASET == 42
RASET == 43
COLMOD == 58

PanelSize == WIDTH * HEIGHT

\* The registers after a hardware or software reset: the driver has set no
\* window and no 16-bit format. The display memory survives a reset.
panel_reset(p) ==
    [p EXCEPT !.caset = <<>>, !.raset = <<>>, !.colmod = 0, !.cmd = 0,
              !.args = <<>>, !.n = 0]

\* One byte arrives with the data/command line at level dcx.
panel_byte(p, dcx, b) ==
    IF dcx = 0
    THEN IF b = SWRESET THEN [panel_reset(p) EXCEPT !.cmd = b]
         ELSE [p EXCEPT !.cmd = b, !.args = <<>>, !.n = 0]
    ELSE LET a == Append(p.args, b)
         IN IF p.cmd \in {CASET, RASET}
            THEN IF Len(a) < 4 THEN [p EXCEPT !.args = a]
                 ELSE IF Len(a) > 4 THEN p
                 ELSE IF p.cmd = CASET
                 THEN [p EXCEPT !.args = a,
                          !.caset = <<256 * a[1] + a[2], 256 * a[3] + a[4]>>]
                 ELSE [p EXCEPT !.args = a,
                          !.raset = <<256 * a[1] + a[2], 256 * a[3] + a[4]>>]
            ELSE IF p.cmd = COLMOD
            THEN IF Len(a) = 1 THEN [p EXCEPT !.args = a, !.colmod = b % 8]
                 ELSE p
            ELSE IF p.cmd = RAMWR
            THEN IF Len(a) < 2 THEN [p EXCEPT !.args = a]
                 ELSE [p EXCEPT !.args = <<>>, !.n = @ + 1,
                          !.gram[(p.n % PanelSize) + 1] =
                              IF p.colmod = 5 THEN 256 * a[1] + a[2] ELSE -1]
            ELSE p

\* Bytes i..j of data arrive, in order (by halves, which keeps the
\* evaluation shallow).
RECURSIVE panel_bytes(_, _, _, _)
panel_bytes(p, data, i, j) ==
    IF i > j THEN p
    ELSE IF i = j THEN panel_byte(p, p.dcx, data[i])
    ELSE LET m == (i + j) \div 2
             q == panel_bytes(p, data, i, m)
         IN IF q.n < 0 THEN q ELSE panel_bytes(q, data, m + 1, j)

\* The panel sees one entry of the hardware log. While the reset line is
\* low the controller is held in reset and takes no bytes. Of a failed
\* write it gets the bytes that went out.
panel_event(p, e) ==
    IF e.k = "gpio" /\ e.pin = "DC" THEN [p EXCEPT !.dcx = e.v]
    ELSE IF e.k = "gpio" /\ e.pin = "RST"
    THEN [(IF e.v = 0 THEN panel_reset(p) ELSE p) EXCEPT !.resx = e.v]
    ELSE IF e.k \in {"xfer", "xfer_error"} /\ p.resx = 1
    THEN panel_bytes(p, e.data, 1, IF e.k = "xfer" THEN Len(e.data) ELSE e.v)
    ELSE p

\* The panel goes through entries i..j of the hardware log of a call.
RECURSIVE panel_run(_, _, _, _)
panel_run(p, log, i, j) ==
    IF i > j THEN p
    ELSE IF i = j THEN panel_event(p, log[i])
    ELSE LET m == (i + j) \div 2
             q == panel_run(p, log, i, m)
         IN IF q.n < 0 THEN q ELSE panel_run(q, log, m + 1, j)

\* ------------------------------------------------------- ST7735Display
\* self.draw = ImageDraw.Draw(self.image) of __init__: the drawing context is
\* bound to the image object created there, object 0, for good.
draw == 0

\* A method's write to the pixels of one image object.
put_image(d, ref, img) ==
    IF d.exc # NoExc THEN d ELSE [d EXCEPT !.images[ref] = img]

\* color[:3] of a tuple of at least three components, else the default.
rgb_of(color, default) ==
    IF Len(color) >= 3 THEN SubSeq(color, 1, 3) ELSE default

\* Mutant of send_command: opcode and parameters in one transfer.
send_command_joined(d, cmd, data) ==
    xfer2(gpio_output(d, "DC", 0), <<cmd>> \o data)

send_command(d, cmd, data) ==
    LET d1 == xfer2(gpio_output(d, "DC", 0), <<cmd>>)
    IN IF data # <<>> THEN xfer2(gpio_output(d1, "DC", 1), data) ELSE d1

\* Mutant of send_chunks: every chunk takes one byte of the next along.
RECURSIVE send_chunks_overlap(_, _, _)
send_chunks_overlap(d, data, i) ==
    IF i >= Len(data) THEN d
    ELSE send_chunks_overlap(
             xfer2(d, SubSeq(data, i + 1, Min(i + chunk_size + 1, Len(data)))),
             data, i + chunk_size)

RECURSIVE send_chunks(_, _, _)
send_chunks(d, data, i) ==
    IF i >= Len(data) THEN d
    ELSE send_chunks(xfer2(d, SubSeq(data, i + 1, Min(i + chunk_size, Len(data)))),
                     data, i + chunk_size)

\* Mutant of send_data: the line is left in command mode.
send_data_no_dc(d, data) == send_chunks(d, data, 0)

send_data(d, data) == send_chunks(gpio_output(d, "DC", 1), data, 0)

\* Mutant of clear: the buffer is filled and the panel reset with it.
clear_resetting(d, color) ==
    gpio_output(
        put_image(d, draw,
            Rectangle(d.images[draw], 0, 0, WIDTH, HEIGHT,
                      rgb_of(color, Black), None)),
        "RST", 0)

clear(d, color) ==
    put_image(d, draw,
        Rectangle(d.images[draw], 0, 0, WIDTH, HEIGHT, rgb_of(color, Black), None))

fonts == {8, 9, 10, 12, 14, 16, 20, 24}

\* self.fonts.get(size, self.fonts.get(10)); d.font is the font handed to
\* self.draw.text, by its size.
draw_text(d, text, x, y, color, size) ==
    LET font == IF size \in fonts THEN size ELSE DefaultSize
    IN put_image([d EXCEPT !.font = font], draw,
           Text(d.images[draw], x, y, Len(text), font, rgb_of(color, White)))

\* ImageDraw.rectangle and ImageDraw.ellipse of the installed Pillow: a release
\* from 9.5 on (d.env has "box_checked") raises ValueError for a box whose
\* second corner lies left of or above the first; an older one draws.
box(d, x0, y0, x1, y1) ==
    IF d.exc = NoExc /\ "box_checked" \in d.env /\ (x1 < x0 \/ y1 < y0)
    THEN [d EXCEPT !.exc = ValueError]
    ELSE d

draw_rectangle(d, x, y, width, height, color, outline) ==
    put_image(box(d, x, y, x + width, y + height), draw,
        Rectangle(d.images[draw], x, y, x + width, y + height,
                  rgb_of(color, White), rgb_of(outline, outline)))

draw_circle(d, x, y, radius, color) ==
    put_image(box(d, x - radius, y - radius, x + radius, y + radius), draw,
        Ellipse(d.images[draw], x - radius, y - radius, x + radius, y + radius,
                rgb_of(color, White)))

draw_line(d, x1, y1, x2, y2, color, width) ==
    put_image(d, draw,
        Line(d.images[draw], x1, y1, x2, y2, rgb_of(color, White), width))

\* Mutant of display_image: the source becomes the buffer, instead of being
\* pasted into it.
display_image_replace(d, img, x, y) ==
    IF ~img.pil THEN d ELSE put_image(d, d.image, img.px)

\* Mutant of display_image: the offset with its axes swapped.
display_image_swapped(d, img, x, y) ==
    IF ~img.pil THEN d
    ELSE put_image(d, d.image, Paste(d.images[d.image], img.px, y, x))

\* isinstance(img, Image.Image) is the field pil of the argument; anything
\* else is reported on stdout and ignored.
display_image(d, img, x, y) ==
    IF ~img.pil THEN d
    ELSE put_image(d, d.image, Paste(d.images[d.image], img.px, x, y))

\* Mutant of update: the pixels without the RAMWR that starts a frame.
update_no_ramwr(d) ==
    send_data(d, rgb565_data(GetData(d.images[d.image])))

\* Mutant of update: a frame that fails is sent once more.
update_retry(d) ==
    LET data == rgb565_data(GetData(d.images[d.image]))
        d1 == send_data(send_command(d, RAMWR, <<>>), data)
    IN IF d1.exc = NoExc THEN d1
       ELSE send_data(send_command([d1 EXCEPT !.exc = NoExc], RAMWR, <<>>),
                      data)

update(d) ==
    LET data == rgb565_data(GetData(d.images[d.image]))
    IN send_data(send_command(d, RAMWR, <<>>), data)

\* Mutant of flash_screen: the saved image is never put back.
flash_screen_no_restore(d, color, duration) ==
    update(sleep(update(clear(d, color)), duration))

\* self.image = original_image rebinds self.image to the copy, a new object
\* (object 1; the copy a former flash left there is garbage by then).
flash_screen(d, color, duration) ==
    LET original_image == d.images[d.image]
        d1 == sleep(update(clear(d, color)), duration)
        d2 == IF d1.exc # NoExc THEN d1
              ELSE [d1 EXCEPT !.images[1] = original_image, !.image = 1]
    IN update(d2)

\* init_display() is straight-line code: these are its statements in order,
\* a GPIO.output(RST_PIN, v), a time.sleep(v ms) or a _send_command(v, data).
St(k, v, data) == [k |-> k, v |-> v, data |-> data]

\* Mutant of init_sequence: the gamma tables sent with the rest of the
\* configuration, before the addressing window.
init_sequence_gamma_first ==
    << St("rst", 1, <<>>), St("sleep", 10, <<>>),
       St("rst", 0, <<>>), St("sleep", 10, <<>>),
       St("rst", 1, <<>>), St("sleep", 120, <<>>),
       St("cmd", 1, <<>>), St("sleep", 150, <<>>),
       St("cmd", 17, <<>>), St("sleep", 500, <<>>),
       St("cmd", 177, <<1, 44, 45>>),
       St("cmd", 178, <<1, 44, 45>>),
       St("cmd", 179, <<1, 44, 45, 1, 44, 45>>),
       St("cmd", 180, <<7>>),
       St("cmd", 192, <<162, 2, 132>>),
       St("cmd", 193, <<197>>),
       St("cmd", 194, <<10, 0>>),
       St("cmd", 195, <<138, 42>>),
       St("cmd", 196, <<138, 238>>),
       St("cmd", 197, <<14>>),
       St("cmd", 32, <<>>),
       St("cmd", 54, <<0>>),
       St("cmd", 58, <<5>>),
       St("cmd", 224, <<2, 28, 7, 18, 55, 50, 41, 45,
                       41, 37, 43, 57, 0, 1, 3, 16>>),
       St("cmd", 225, <<3, 29, 7, 6, 46, 44, 41, 45,
                       46, 46, 55, 63, 0, 0, 2, 16>>),
       St("cmd", 42, <<0, 0, 0, 127>>),
       St("cmd", 43, <<0, 0, 0, 127>>),
       St("cmd", 19, <<>>), St("sleep", 10, <<>>),
       St("cmd", 41, <<>>), St("sleep", 120, <<>>) >>

init_sequence ==
    << St("rst", 1, <<>>), St("sleep", 10, <<>>),
       St("rst", 0, <<>>), St("sleep", 10, <<>>),
       St("rst", 1, <<>>), St("sleep", 120, <<>>),
       St("cmd", 1, <<>>), St("sleep", 150, <<>>),
       St("cmd", 17, <<>>), St("sleep", 500, <<>>),
       St("cmd", 177, <<1, 44, 45>>),
       St("cmd", 178, <<1, 44, 45>>),
       St("cmd", 179, <<1, 44, 45, 1, 44, 45>>),
       St("cmd", 180, <<7>>),
       St("cmd", 192, <<162, 2, 132>>),
       St("cmd", 193, <<197>>),
       St("cmd", 194, <<10, 0>>),
       St("cmd", 195, <<138, 42>>),
       St("cmd", 196, <<138, 238>>),
       St("cmd", 197, <<14>>),
       St("cmd", 32, <<>>),
       St("cmd", 54, <<0>>),
       St("cmd", 58, <<5>>),
       St("cmd", 42, <<0, 0, 0, 127>>),
       St("cmd", 43, <<0, 0, 0, 127>>),
       St("cmd", 224, <<2, 28, 7, 18, 55, 50, 41, 45,
                       41, 37, 43, 57, 0, 1, 3, 16>>),
       St("cmd", 225, <<3, 29, 7, 6, 46, 44, 41, 45,
                       46, 46, 55, 63, 0, 0, 2, 16>>),
       St("cmd", 19, <<>>), St("sleep", 10, <<>>),
       St("cmd", 41, <<>>), St("sleep", 120, <<>>) >>

\* Mutant of statement: the delays a factor of ten too short.
statement_short_sleep(d, st) ==
    IF st.k = "rst" THEN gpio_output(d, "RST", st.v)
    ELSE IF st.k = "sleep" THEN sleep(d, st.v \div 10)
    ELSE send_command(d, st.v, st.data)

statement(d, st) ==
    IF st.k = "rst" THEN gpio_output(d, "RST", st.v)
    ELSE IF st.k = "sleep" THEN sleep(d, st.v)
    ELSE send_command(d, st.v, st.data)

RECURSIVE statements(_, _, _)
statements(d, sts, i) ==
    IF d.exc # NoExc \/ i > Len(sts) THEN d
    ELSE statements(statement(d, sts[i]), sts, i + 1)

init_display(d) == update(clear(statements(d, init_sequence, 1), Black))

\* Mutant of cleanup: without the except clause.
cleanup_no_except(d) ==
    gpio_output(spi_close(update(clear(d, Black))), "RST", 0)

\* try: ... except Exception: print(...)
cleanup(d) ==
    LET d1 == gpio_output(spi_close(update(clear(d, Black))), "RST", 0)
    IN IF d1.exc # NoExc THEN [d1 EXCEPT !.caught = d1.exc, !.exc = NoExc] ELSE d1

\* ------------------------------------------------------------------ state
VARIABLES
    images,     \* the pixels of the PIL image objects: 0 is the image __init__
                \* creates, 1 the copy flash_screen() leaves in self.image
    image,      \* self.image: the object update() encodes
    spi,        \* the bus handle is open
    dc,         \* level of the data/command line (DC_PIN)
    rst,        \* level of the reset line (RST_PIN)
    bus,        \* what the last call did to the hardware, in order
    call,       \* the last call: its name and its arguments
    result,     \* how the last call ended: "ok" or the exception it raised
    caught,     \* the exception the last call caught and printed, if any
    initDone,   \* an init_display() has completed
    cleanedUp,  \* a cleanup() has run
    ncalls,     \* calls made so far
    panel,      \* the registers and the display memory of the controller
    torn,       \* update() and flash_screen() calls a bus failure cut short
    font,       \* the font the last call drew text with, by size (0: none)
    running,        \* PiCameraLauncher.running
    current_screen, \* PiCameraLauncher.current_screen
    stack,          \* the main thread: run() at the bottom, on top of it the
                    \* signal handlers that interrupted it, innermost last
    signals,        \* SIGINT/SIGTERM delivered so far
    selected_app,   \* PiCameraLauncher.selected_app, an index into apps
    expired,        \* time.time() - self.last_activity > AUTO_SLEEP_TIME
    monitor,        \* the system_monitor thread: where it is in its loop
    current_menu,     \* SettingsApp.current_menu
    selected_item,    \* SettingsApp.selected_item
    should_exit_flag, \* SettingsApp.should_exit_flag
    wifi_networks,    \* SettingsApp.wifi_networks, by its length
    wifi_selected,    \* SettingsApp.wifi_selected
    scans,            \* the _perform_wifi_scan threads started so far: where
                      \* each is (pc), what its scan found (n), and whether
                      \* the user has cancelled it with LEFT since it started
    upload_queue,     \* PhotoUploader.upload_queue: of each entry uploaded
                      \* and upload_attempts, and whether the file at its
                      \* filepath exists
    processing,       \* PhotoUploader.processing
    uploading,        \* PhotoUploader.running
    worker,           \* the _upload_worker thread: where it is (pc) and the
                      \* entries of pending_uploads it has yet to go through
    now,              \* time.time(), in ms
    pin,              \* the level get_input() found each button's pin at
                      \* last: TRUE is pressed
    last_press,       \* NavigationController.last_press, in ms
    press_count,      \* NavigationController.press_count
    button_states,    \* NavigationController.button_states
    repeat_active,    \* NavigationController.repeat_active
    polled,           \* get_input() was called in this period
    repeater,         \* the _repeat_handler thread: where it is (pc), the
                      \* time it read and the direction it is at
    nav_event,        \* what the last get_input() returned
    event_time,       \* when get_input() returned each direction last (-1:
                      \* never)
    held,             \* the direction was returned, and every call since
                      \* found its button pressed
    camera_running,   \* CameraApp.running
    show_ui,          \* CameraApp.show_ui
    ui_timeout,       \* CameraApp.ui_timeout, in ms
    last_photo_time,  \* CameraApp.last_photo_time, in ms
    photo_count,      \* CameraApp.photo_count
    capture_mode,     \* CameraApp.capture_mode
    loop,             \* where an iteration of the main loop is: at its
                      \* "input", in a "launch", or at its "render"
    leaving           \* the button of this iteration made the app on screen
                      \* exit

vars == <<images, image, spi, dc, rst, bus, call, result, caught,
          initDone, cleanedUp, ncalls, panel, torn, font,
          running, current_screen, stack, signals, selected_app, expired,
          monitor, current_menu, selected_item, should_exit_flag,
          wifi_networks, wifi_selected, scans,
          upload_queue, processing, uploading, worker,
          now, pin, last_press, press_count, button_states, repeat_active,
          polled, repeater, nav_event, event_time, held,
          camera_running, show_ui, ui_timeout, last_photo_time, photo_count,
          capture_mode, loop, leaving>>

\* The state of the driver, the bus handle apart, and of the launcher.
drivervars == <<images, image, dc, rst, bus, call, result, caught,
                initDone, cleanedUp, ncalls, panel, torn, font>>
launchervars == <<running, current_screen, stack, signals, selected_app,
                  expired, monitor>>
settingsvars == <<current_menu, selected_item, should_exit_flag,
                  wifi_networks, wifi_selected, scans>>
uploadervars == <<upload_queue, processing, uploading, worker>>
navvars == <<now, pin, last_press, press_count, button_states,
             repeat_active, polled, repeater, nav_event, event_time, held>>
cameravars == <<camera_running, show_ui, ui_timeout, last_photo_time,
                photo_count, capture_mode, loop, leaving>>
appvars == <<launchervars, settingsvars, uploadervars, navvars, cameravars>>

\* ----------------------------------------------------------------- inputs
Colors == {Red, Teal}
\* Which bus write of a call the environment fails: none, the first (the
\* opcode of its first command) or the second.
Faults == {0, 1, 2}

\* A 2 x 2 source whose four pixels differ, as a PIL image and as pixel data
\* that is no PIL image.
Photo == [y \in 0..1 |-> [x \in 0..1 |-> <<64 * x + 8, 128 * y + 4, 100>>]]
Sources == {[pil |-> TRUE, px |-> Photo], [pil |-> FALSE, px |-> Photo]}

\* The instance as a call finds it: nothing logged yet, no exception pending,
\* and the bus write that will fail (0: none).
Driver(f) ==
    [images |-> images, image |-> image, spi |-> spi, dc |-> dc, rst |-> rst,
     bus |-> <<>>, fail |-> f, got |-> 0, env |-> {}, exc |-> NoExc,
     caught |-> NoExc, font |-> 0]

\* The call op(args) has run and left the instance as d.
Return(op, args, d) ==
    /\ ncalls < MaxCalls
    /\ ncalls' = ncalls + 1
    /\ images' = d.images
    /\ image' = d.image
    /\ spi' = d.spi
    /\ dc' = d.dc
    /\ rst' = d.rst
    /\ bus' = d.bus
    /\ call' = [op |-> op, args |-> args]
    /\ result' = IF d.exc = NoExc THEN "ok" ELSE d.exc
    /\ caught' = d.caught
    /\ initDone' = (initDone \/ (op = "init_display" /\ d.exc = NoExc))
    /\ cleanedUp' = (cleanedUp \/ op = "cleanup")
    /\ panel' = panel_run(panel, d.bus, 1, Len(d.bus))
    /\ font' = d.font
    /\ UNCHANGED appvars
    /\ torn' = IF op \in {"update", "flash_screen"} /\ d.exc # NoExc
               THEN torn + 1 ELSE torn

\* time.time() when the program starts, in ms: the clock is well past the
\* epoch.
Boot == 1000

\* PiCameraLauncher.__init__ leaves the launcher running on its home screen
\* with run() about to start and no signal delivered yet, and the settings
\* app on its main menu with no network scanned, and the uploader with an
\* empty queue and its worker thread started, and the navigation with no
\* button pressed and its repeat thread started, at a time well past the
\* epoch (a debounce window past it, at the least).
AppInit ==
    /\ running = TRUE
    /\ current_screen = "launcher"
    /\ stack = << [code |-> "run", pc |-> "while", k |-> 0, inop |-> FALSE] >>
    /\ signals = 0
    /\ selected_app = 0
    /\ expired = FALSE
    /\ monitor = "loop"
    /\ current_menu = "main"
    /\ selected_item = 0
    /\ should_exit_flag = FALSE
    /\ wifi_networks = 0
    /\ wifi_selected = 0
    /\ scans = <<>>
    /\ upload_queue = <<>>
    /\ processing = FALSE
    /\ uploading = TRUE
    /\ worker = [pc |-> "sleep", todo |-> <<>>]
    /\ now = Boot
    /\ pin = [direction \in {"UP", "DOWN"} |-> FALSE]
    /\ last_press = [direction \in {"UP", "DOWN"} |-> 0]
    /\ press_count = [direction \in {"UP", "DOWN"} |-> 0]
    /\ button_states = [direction \in {"UP", "DOWN"} |-> FALSE]
    /\ repeat_active = [direction \in {"UP", "DOWN"} |-> FALSE]
    /\ polled = FALSE
    /\ repeater = [pc |-> "time", current_time |-> 0, i |-> 1]
    /\ nav_event = "None"
    /\ event_time = [direction \in {"UP", "DOWN"} |-> -1]
    /\ held = [direction \in {"UP", "DOWN"} |-> FALSE]
    /\ camera_running = FALSE
    /\ show_ui = TRUE
    /\ ui_timeout = 0
    /\ last_photo_time = 0
    /\ photo_count = 0
    /\ capture_mode = "photo"
    /\ loop = "input"
    /\ leaving = FALSE

\* __init__: the bus is opened, the two lines are made outputs (low until
\* driven), the buffer is a black WIDTH x HEIGHT image and draw is bound to it.
Init ==
    /\ images = [o \in 0..1 |-> NewImage(WIDTH, HEIGHT, Black)]
    /\ image = draw
    /\ spi = TRUE
    /\ dc = 0
    /\ rst = 0
    /\ bus = <<>>
    /\ call = [op |-> "__init__", args |-> <<>>]
    /\ result = "ok"
    /\ caught = NoExc
    /\ initDone = FALSE
    /\ cleanedUp = FALSE
    /\ ncalls = 0
    /\ panel = [caset |-> <<>>, raset |-> <<>>, colmod |-> 0, cmd |-> 0,
                args |-> <<>>, n |-> 0, gram |-> [i \in 1..PanelSize |-> -1],
                dcx |-> 0, resx |-> 0]
    /\ torn = 0
    /\ font = 0
    /\ AppInit

\* The driver as PiCameraLauncher.__init__ has it when the application
\* starts: constructed and then initialized by an init_display() that the
\* bus let through.
InitActive ==
    LET d == init_display(
                 [images |-> [o \in 0..1 |-> NewImage(WIDTH, HEIGHT, Black)],
                  image |-> draw, spi |-> TRUE, dc |-> 0, rst |-> 0,
                  bus |-> <<>>, fail |-> 0, got |-> 0, env |-> {},
                  exc |-> NoExc, caught |-> NoExc, font |-> 0])
    IN /\ images = d.images
       /\ image = d.image
       /\ spi = d.spi
       /\ dc = d.dc
       /\ rst = d.rst
       /\ bus = d.bus
       /\ call = [op |-> "init_display", args |-> <<>>]
       /\ result = "ok"
       /\ caught = NoExc
       /\ initDone = TRUE
       /\ cleanedUp = FALSE
       /\ ncalls = 0
       /\ panel = panel_run(
                      [caset |-> <<>>, raset |-> <<>>, colmod |-> 0,
                       cmd |-> 0, args |-> <<>>, n |-> 0,
                       gram |-> [i \in 1..PanelSize |-> -1],
                       dcx |-> 0, resx |-> 0], d.bus, 1, Len(d.bus))
       /\ torn = 0
       /\ font = 0
       /\ AppInit

InitDisplay ==
    \E f \in Faults :
        Return("init_display", <<>>, init_display(Driver(f)))

Clear ==
    \E color \in Colors :
        Return("clear", <<color>>, clear(Driver(0), color))

\* A size that has a font, and one that has none (src/camera_app.py:333).
DrawText ==
    \E size \in {8, 7} :
        Return("draw_text", <<"Hi", 1, 2, Teal, size>>,
               draw_text(Driver(0), "Hi", 1, 2, Teal, size))

\* Rectangles that lie inside the panel: one in its interior, with and
\* without an outline, and one that ends on its right and bottom edges.
DrawRectangle ==
    \E r \in {<<1, 1, 1, 2, None>>, <<1, 1, 1, 2, White>>,
              <<1, 2, WIDTH - 1, HEIGHT - 2, None>>} :
        Return("draw_rectangle", <<r[1], r[2], r[3], r[4], Red, r[5]>>,
               draw_rectangle(Driver(0), r[1], r[2], r[3], r[4], Red, r[5]))

DrawCircle ==
    \E radius \in {1} :
        Return("draw_circle", <<2, 2, radius, White>>,
               draw_circle(Driver(0), 2, 2, radius, White))

DrawLine ==
    \E x2 \in {WIDTH - 2} :
        Return("draw_line", <<0, 1, x2, 1, Teal, 1>>,
               draw_line(Driver(0), 0, 1, x2, 1, Teal, 1))

\* A source inside the panel, and one that sticks out on the left and at the
\* bottom; what is no PIL image is tried at the first place only.
DisplayImage ==
    \E img \in Sources, at \in {<<1, 1>>, <<-1, HEIGHT - 1>>} :
        /\ (img.pil \/ at = <<1, 1>>)
        /\ Return("display_image", <<img, at[1], at[2]>>,
                  display_image(Driver(0), img, at[1], at[2]))

\* What the environment does to an update(): nothing, or it fails the write
\* of the opcode, or the write of the frame, of which nothing or the first
\* three bytes (a pixel and a half) have gone out by then.
UpdateFaults == {<<0, 0>>, <<1, 0>>, <<2, 0>>, <<2, 3>>}

Update ==
    \E f \in UpdateFaults :
        Return("update", <<>>,
               update([Driver(f[1]) EXCEPT !.got = f[2]]))

\* What the environment does to a flash_screen(): nothing, or it fails the
\* opcode of the first frame, or that frame's pixels after three bytes.
FlashFaults == {<<0, 0>>, <<1, 0>>, <<2, 3>>}

\* White and red flashes that the bus lets through, red ones that it fails.
FlashScreen ==
    \E color \in {White, Red}, f \in FlashFaults :
        /\ (color = Red \/ f[1] = 0)
        /\ Return("flash_screen", <<color, 200>>,
                  flash_screen([Driver(f[1]) EXCEPT !.got = f[2]], color, 200))

\* What the environment fails during a cleanup(): a bus write of its final
\* update(), the close of the bus handle, or the write to the reset line.
CleanupFaults ==
    {<<0, {}>>, <<1, {}>>, <<2, {}>>, <<0, {"close"}>>, <<0, {"RST"}>>}

Cleanup ==
    \E f \in CleanupFaults :
        Return("cleanup", <<>>, cleanup([Driver(f[1]) EXCEPT !.env = f[2]]))

Next ==
    \/ InitDisplay
    \/ Clear
    \/ DrawText
    \/ DrawRectangle
    \/ DrawCircle
    \/ DrawLine
    \/ DisplayImage
    \/ Update
    \/ FlashScreen
    \/ Cleanup

Spec == Init /\ [][Next]_vars

\* _send_data on byte streams of the lengths that matter to its loop: empty,
\* shorter than a chunk, a chunk, just over, several chunks, and a frame of
\* the 128 x 128 panel. Bytes(n, s) is a stream of n bytes that differ.
Lengths ==
    {0, 2, chunk_size - 2, chunk_size, chunk_size + 1, chunk_size + 2,
     2 * chunk_size, 2 * chunk_size + 6, 2 * FullWidth * FullHeight}
Seeds == {1, 7}
ChunkFaults == 0..3

Bytes(n, s) == [i \in 1..n |-> (i * s) % 256]

SendData ==
    \E n \in Lengths, s \in Seeds, f \in ChunkFaults :
        Return("_send_data", <<n, s>>, send_data(Driver(f), Bytes(n, s)))

SpecChunks == Init /\ [][SendData]_vars

\* The shape calls with geometry at and beyond the edges of the panel, and
\* with sizes that are zero or negative, under a Pillow of either kind.
Corners == {<<-1, -1>>, <<1, 2>>, <<WIDTH, 0>>}
Sizes == {<<-1, 2>>, <<0, 0>>, <<2, -1>>, <<WIDTH + 2, 1>>}
Radii == {-1, 0, 2, WIDTH}
Pillows == {{}, {"box_checked"}}

Pillow(env) == [Driver(0) EXCEPT !.env = env]

GeomRectangle ==
    \E c \in Corners, sz \in Sizes, env \in Pillows :
        Return("draw_rectangle", <<c[1], c[2], sz[1], sz[2], Red, None>>,
               draw_rectangle(Pillow(env), c[1], c[2], sz[1], sz[2], Red, None))

GeomCircle ==
    \E c \in Corners, radius \in Radii, env \in Pillows :
        Return("draw_circle", <<c[1], c[2], radius, White>>,
               draw_circle(Pillow(env), c[1], c[2], radius, White))

GeomLine ==
    \E c \in Corners, e \in Corners, width \in {0, 1}, env \in Pillows :
        /\ (c[1] = e[1] \/ c[2] = e[2])
        /\ Return("draw_line", <<c[1], c[2], e[1], e[2], Teal, width>>,
                  draw_line(Pillow(env), c[1], c[2], e[1], e[2], Teal, width))

NextGeom ==
    \/ GeomRectangle
    \/ GeomCircle
    \/ GeomLine

SpecGeom == Init /\ [][NextGeom]_vars

\* The same calls on the driver of the running application.
SpecActive == InitActive /\ [][Next]_vars

\* The codec on a wide range of colors: clear() with every triple whose
\* components come from Samples, and update().
Samples == {0, 3, 4, 7, 8, 129, 255}

ClearSample ==
    \E r \in Samples, g \in Samples, b \in Samples :
        Return("clear", <<(<<r, g, b>>)>>, clear(Driver(0), <<r, g, b>>))

UpdateOk == Return("update", <<>>, update(Driver(0)))

NextCodec ==
    \/ ClearSample
    \/ UpdateOk

SpecCodec == Init /\ [][NextCodec]_vars

\* ------------------------------------------------------ PiCameraLauncher
\* The running application, src/main.py. The main thread executes run();
\* SIGINT and SIGTERM are handled by signal_handler(), which Python runs on
\* the main thread between two bytecodes of whatever that thread is doing,
\* on top of its stack. A display operation is followed from its call to its
\* return (inop), not into the driver. The background threads never call the
\* display: system_monitor only assigns current_screen.

\* The display calls of one frame of the screen (show_launcher, in short,
\* and handle_sleep_mode), and of the shutdown screen.
FrameOps(screen) ==
    IF screen = "camera"
    THEN <<"display_image", "draw_rectangle", "draw_text", "update">>
    ELSE IF screen \in {"launcher", "settings"}
    THEN <<"clear", "draw_rectangle", "draw_text", "update">>
    ELSE <<"clear", "draw_text", "draw_text", "update">>

\* self.apps, by name, and the display operations of show_app_transition: a
\* clear(), then one frame per radius in range(5, 65, 8).
apps == <<"camera", "settings">>

TransitionFrames == 8

TransitionOps ==
    <<"clear">> \o
    [i \in 1..(4 * TransitionFrames) |->
        <<"clear", "draw_circle", "draw_text", "update">>[((i - 1) % 4) + 1]]

ShutdownOps == <<"clear", "draw_text", "update">>

Top == stack[Len(stack)]
SetTop(f) == [stack EXCEPT ![Len(stack)] = f]

\* The display operation the activation f is about to call or is inside.
OpOf(f) ==
    IF f.code = "run" /\ f.pc = "render" THEN FrameOps(current_screen)[f.k]
    ELSE IF f.code = "run" /\ f.pc = "launch" THEN TransitionOps[f.k]
    ELSE IF f.code = "shutdown" /\ f.pc = "screen" THEN ShutdownOps[f.k]
    ELSE IF f.code = "shutdown" /\ f.pc = "display_cleanup" THEN "cleanup"
    ELSE "none"

\* Where the activation goes on when its display operation has returned.
AfterOp(f) ==
    IF f.code = "run" /\ f.pc = "launch"
    THEN IF f.k < Len(TransitionOps)
         THEN [f EXCEPT !.k = @ + 1, !.inop = FALSE]
         ELSE [f EXCEPT !.pc = "launched", !.k = 0, !.inop = FALSE]
    ELSE IF f.code = "run"
    THEN IF f.k < Len(FrameOps(current_screen))
         THEN [f EXCEPT !.k = @ + 1, !.inop = FALSE]
         ELSE [f EXCEPT !.pc = "pace", !.k = 0, !.inop = FALSE]
    ELSE IF f.pc = "screen"
    THEN IF f.k < Len(ShutdownOps)
         THEN [f EXCEPT !.k = @ + 1, !.inop = FALSE]
         ELSE [f EXCEPT !.pc = "sleep", !.k = 0, !.inop = FALSE]
    ELSE [f EXCEPT !.pc = "navigation_cleanup", !.inop = FALSE]

\* An exception is raised in the innermost activation of st. run() catches
\* it inside its loop body; outside of it the exception leaves run() and ends
\* the program. shutdown() catches it in its try block of cleanup calls; from
\* anywhere else it leaves the handler and is raised where the handler had
\* interrupted the activation below.
RECURSIVE Raise(_)
Raise(st) ==
    LET f == st[Len(st)]
    IN IF f.code = "run"
       THEN IF f.pc \in {"input", "launch", "launched", "render", "pace"}
            THEN [st EXCEPT ![Len(st)] =
                     [f EXCEPT !.pc = "except", !.k = 0, !.inop = FALSE]]
            ELSE [st EXCEPT ![Len(st)] =
                     [f EXCEPT !.pc = "exit", !.k = 0, !.inop = FALSE]]
       ELSE IF f.pc \in {"camera_cleanup", "settings_cleanup",
                         "display_cleanup", "navigation_cleanup"}
       THEN [st EXCEPT ![Len(st)] =
                [f EXCEPT !.pc = "stop", !.k = 0, !.inop = FALSE]]
       ELSE Raise(SubSeq(st, 1, Len(st) - 1))

\* while self.running:
LoopTest ==
    /\ Top.code = "run" /\ Top.pc = "while"
    /\ stack' = SetTop([Top EXCEPT !.pc = IF running THEN "input" ELSE "exit"])
    /\ UNCHANGED <<running, current_screen, signals, spi, drivervars,
                   selected_app, expired, monitor, settingsvars,
                   uploadervars, navvars, cameravars>>

\* nav_input = self.navigation.get_input(); a button resets last_activity
\* and goes to handle_navigation: on the launcher LEFT and RIGHT move the
\* selection and CENTER launches the selected app, on the sleep screen any
\* button wakes the launcher. Without a button the time since the last one
\* grows, in the end beyond AUTO_SLEEP_TIME.
GetInput ==
    \E nav_input \in {"None", "LEFT", "RIGHT", "CENTER"}, late \in BOOLEAN :
        /\ Top.code = "run" /\ Top.pc = "input"
        /\ current_screen \in {"camera", "settings"} => nav_input = "None"
        /\ expired' = IF nav_input = "None" THEN (expired \/ late) ELSE FALSE
        /\ nav_input # "None" => ~late
        /\ current_screen' = IF nav_input # "None" /\ current_screen = "sleep"
                             THEN "launcher" ELSE current_screen
        /\ selected_app' =
              IF current_screen # "launcher" THEN selected_app
              ELSE IF nav_input = "LEFT" THEN Max(0, selected_app - 1)
              ELSE IF nav_input = "RIGHT"
              THEN Min(Len(apps) - 1, selected_app + 1)
              ELSE selected_app
        /\ stack' = SetTop(IF current_screen = "launcher" /\ nav_input = "CENTER"
                           THEN [Top EXCEPT !.pc = "launch", !.k = 1]
                           ELSE [Top EXCEPT !.pc = "render", !.k = 1])
        /\ UNCHANGED <<running, signals, monitor, spi, drivervars,
                       settingsvars,
                   uploadervars, navvars, cameravars>>

\* launch_selected_app after its transition: the screen becomes the app's,
\* and the frame goes on to render it.
Launched ==
    /\ Top.code = "run" /\ Top.pc = "launched"
    /\ current_screen' = apps[selected_app + 1]
    /\ stack' = SetTop([Top EXCEPT !.pc = "render", !.k = 1])
    /\ UNCHANGED <<running, signals, selected_app, expired, monitor, spi,
                   drivervars, settingsvars,
                   uploadervars, navvars, cameravars>>

\* The innermost activation calls its next display operation.
BeginOp ==
    /\ OpOf(Top) # "none"
    /\ ~Top.inop
    /\ stack' = SetTop([Top EXCEPT !.inop = TRUE])
    /\ UNCHANGED <<running, current_screen, signals, spi, drivervars,
                   selected_app, expired, monitor, settingsvars,
                   uploadervars, navvars, cameravars>>

\* The operation comes to its end: update() raises the OSError of the closed
\* bus handle, cleanup() closes the handle and returns, the others return.
EndOp ==
    /\ Top.inop
    /\ IF OpOf(Top) = "update" /\ ~spi
       THEN stack' = Raise(stack) /\ spi' = spi
       ELSE /\ stack' = SetTop(AfterOp(Top))
            /\ spi' = (spi /\ OpOf(Top) # "cleanup")
    /\ UNCHANGED <<running, current_screen, signals, drivervars,
                   selected_app, expired, monitor, settingsvars,
                   uploadervars, navvars, cameravars>>

\* time.sleep(sleep_time) at the end of a frame; print and time.sleep(1) in
\* the except clause of run().
Pace ==
    /\ Top.code = "run" /\ Top.pc \in {"pace", "except"}
    /\ stack' = SetTop([Top EXCEPT !.pc = "while"])
    /\ UNCHANGED <<running, current_screen, signals, spi, drivervars,
                   selected_app, expired, monitor, settingsvars,
                   uploadervars, navvars, cameravars>>

\* shutdown() between its display calls: time.sleep(1), the cleanup of the
\* camera app, of the settings app and of the navigation.
ShutdownStep ==
    /\ Top.code = "shutdown"
    /\ Top.pc \in {"sleep", "camera_cleanup", "settings_cleanup",
                   "navigation_cleanup"}
    /\ stack' = SetTop([Top EXCEPT !.pc =
                    CASE Top.pc = "sleep" -> "camera_cleanup"
                      [] Top.pc = "camera_cleanup" -> "settings_cleanup"
                      [] Top.pc = "settings_cleanup" -> "display_cleanup"
                      [] OTHER -> "stop"])
    /\ UNCHANGED <<running, current_screen, signals, spi, drivervars,
                   selected_app, expired, monitor, settingsvars,
                   uploadervars, navvars, cameravars>>

\* self.running = False, and the handler returns to what it interrupted.
ShutdownReturn ==
    /\ Top.code = "shutdown" /\ Top.pc = "stop"
    /\ running' = FALSE
    /\ stack' = SubSeq(stack, 1, Len(stack) - 1)
    /\ UNCHANGED <<current_screen, signals, spi, drivervars,
                   selected_app, expired, monitor, settingsvars,
                   uploadervars, navvars, cameravars>>

\* A SIGINT or SIGTERM arrives while the program runs: signal_handler()
\* starts shutdown() on top of whatever the main thread is doing.
Signal ==
    /\ signals < MaxSignals
    /\ stack[1].pc # "exit"
    /\ signals' = signals + 1
    /\ stack' = Append(stack,
                    [code |-> "shutdown", pc |-> "screen", k |-> 1,
                     inop |-> FALSE])
    /\ UNCHANGED <<running, current_screen, spi, drivervars,
                   selected_app, expired, monitor, settingsvars,
                   uploadervars, navvars, cameravars>>

\* system_monitor, the background thread, as long as the program runs. Its
\* loop tests the time since the last button (and sleeps 10 s when it is
\* short), ...
SystemMonitor ==
    /\ monitor = "loop"
    /\ running
    /\ stack[1].pc # "exit"
    /\ expired
    /\ monitor' = "screen"
    /\ UNCHANGED <<running, current_screen, stack, signals, selected_app,
                   expired, spi, drivervars, settingsvars,
                   uploadervars, navvars, cameravars>>

\* ... then tests the screen (if self.current_screen == "launcher") ...
MonitorScreen ==
    /\ monitor = "screen"
    /\ stack[1].pc # "exit"
    /\ monitor' = IF current_screen = "launcher" THEN "show_sleep_screen"
                  ELSE "loop"
    /\ UNCHANGED <<running, current_screen, stack, signals, selected_app,
                   expired, spi, drivervars, settingsvars,
                   uploadervars, navvars, cameravars>>

\* ... and calls show_sleep_screen(), which sets the screen.
ShowSleepScreen ==
    /\ monitor = "show_sleep_screen"
    /\ stack[1].pc # "exit"
    /\ current_screen' = "sleep"
    /\ monitor' = "loop"
    /\ UNCHANGED <<running, stack, signals, selected_app, expired, spi,
                   drivervars, settingsvars,
                   uploadervars, navvars, cameravars>>

NextApp ==
    \/ LoopTest
    \/ GetInput
    \/ Launched
    \/ BeginOp
    \/ EndOp
    \/ Pace
    \/ ShutdownStep
    \/ ShutdownReturn
    \/ Signal
    \/ SystemMonitor
    \/ MonitorScreen
    \/ ShowSleepScreen

SpecApp == Init /\ [][NextApp]_vars

\* ------------------------------------------------------- the settings app
\* How many scans the user starts, at most.
MaxScans == 2

\* An item of a menu: its action and, for "submenu", the menu it opens.
It(action, submenu) == [action |-> action, submenu |-> submenu]

\* self.menu_structure: the items of each structured menu, in order.
menu_structure ==
    [main |-> << It("submenu", "wifi"), It("submenu", "share"),
                 It("submenu", "camera"), It("submenu", "display"),
                 It("submenu", "system"), It("submenu", "about"),
                 It("exit", "") >>,
     wifi |-> << It("scan_wifi", ""), It("show_current", ""), It("back", "") >>,
     share |-> << It("show_share_status", ""), It("show_share_info", ""),
                  It("show_today_photos", ""), It("show_total_photos", ""),
                  It("back", "") >>,
     camera |-> << It("info", ""), It("info", ""), It("info", ""),
                   It("back", "") >>,
     display |-> << It("info", ""), It("info", ""), It("back", "") >>,
     system |-> << It("info", ""), It("restart", ""), It("shutdown", ""),
                   It("back", "") >>,
     about |-> << It("show_info", ""), It("show_info", ""),
                  It("show_info", ""), It("back", "") >>]

\* The settings as a record, for the handlers to transform; raised tells
\* that the handler ended in an exception (which run() catches).
Settings ==
    [current_menu |-> current_menu, selected_item |-> selected_item,
     should_exit_flag |-> should_exit_flag, wifi_networks |-> wifi_networks,
     wifi_selected |-> wifi_selected, scans |-> scans, raised |-> FALSE]

go_back(a) ==
    IF a.current_menu = "main" THEN [a EXCEPT !.should_exit_flag = TRUE]
    ELSE [a EXCEPT !.current_menu = "main", !.selected_item = 0]

\* The menu shows the scan and a thread is started for it.
scan_wifi_networks(a) ==
    [a EXCEPT !.current_menu = "wifi_scan", !.wifi_networks = 0,
              !.scans = Append(@, [pc |-> "scan", n |-> 0,
                                   cancelled |-> FALSE])]

\* menu["items"][self.selected_item] raises IndexError for an index past the
\* end. The information screens, restart and shutdown change nothing here.
execute_menu_action(a) ==
    LET items == menu_structure[a.current_menu]
    IN IF a.selected_item >= Len(items) THEN [a EXCEPT !.raised = TRUE]
       ELSE LET item == items[a.selected_item + 1]
            IN IF item.action = "submenu"
               THEN [a EXCEPT !.current_menu = item.submenu,
                              !.selected_item = 0]
               ELSE IF item.action = "back" THEN go_back(a)
               ELSE IF item.action = "exit"
               THEN [a EXCEPT !.should_exit_flag = TRUE]
               ELSE IF item.action = "scan_wifi" THEN scan_wifi_networks(a)
               ELSE a

handle_menu_input(a, nav_input) ==
    LET items == menu_structure[a.current_menu]
    IN IF nav_input = "UP"
       THEN [a EXCEPT !.selected_item = Max(0, @ - 1)]
       ELSE IF nav_input = "DOWN"
       THEN [a EXCEPT !.selected_item = Min(Len(items) - 1, @ + 1)]
       ELSE IF nav_input = "CENTER" THEN execute_menu_action(a)
       ELSE IF nav_input = "LEFT" /\ a.current_menu # "main" THEN go_back(a)
       ELSE a

\* LEFT leaves the scanning screen; the threads scanning at that moment are
\* the ones the user has cancelled.
handle_wifi_scan_input(a, nav_input) ==
    IF nav_input = "LEFT"
    THEN [a EXCEPT !.current_menu = "wifi",
                   !.scans = [i \in DOMAIN @ |->
                                 IF @[i].pc # "done"
                                 THEN [@[i] EXCEPT !.cancelled = TRUE]
                                 ELSE @[i]]]
    ELSE a

\* connect_to_wifi returns to the WiFi menu when there is a network to
\* connect to.
handle_wifi_networks_input(a, nav_input) ==
    IF nav_input = "UP"
    THEN [a EXCEPT !.wifi_selected = Max(0, @ - 1)]
    ELSE IF nav_input = "DOWN"
    THEN [a EXCEPT !.wifi_selected = Min(a.wifi_networks - 1, @ + 1)]
    ELSE IF nav_input = "LEFT" THEN [a EXCEPT !.current_menu = "wifi"]
    ELSE IF nav_input = "CENTER"
    THEN IF a.wifi_networks > 0 /\ a.wifi_selected < a.wifi_networks
         THEN [a EXCEPT !.current_menu = "wifi"]
         ELSE a
    ELSE a

handle_input(a, nav_input) ==
    IF a.current_menu \in DOMAIN menu_structure
    THEN handle_menu_input(a, nav_input)
    ELSE IF a.current_menu = "wifi_scan"
    THEN handle_wifi_scan_input(a, nav_input)
    ELSE handle_wifi_networks_input(a, nav_input)

\* The settings are as the handler or thread step left them in a.
Becomes(a) ==
    /\ current_menu' = a.current_menu
    /\ selected_item' = a.selected_item
    /\ should_exit_flag' = a.should_exit_flag
    /\ wifi_networks' = a.wifi_networks
    /\ wifi_selected' = a.wifi_selected
    /\ scans' = a.scans
    /\ UNCHANGED <<spi, drivervars, launchervars, uploadervars, navvars, cameravars>>

\* The main loop hands a button to the settings app while it is on screen.
HandleInput ==
    \E nav_input \in {"UP", "DOWN", "LEFT", "CENTER"} :
        /\ ~should_exit_flag
        /\ LET a == handle_input(Settings, nav_input)
           IN /\ Len(a.scans) <= MaxScans
              /\ Becomes(a)

\* The app was left (run_frame returned False) and is launched again.
OnLaunch ==
    /\ should_exit_flag
    /\ Becomes([Settings EXCEPT !.current_menu = "main", !.selected_item = 0,
                                !.should_exit_flag = FALSE])

\* _perform_wifi_scan, thread i: the scan returns with n networks,
ScanReturns ==
    \E i \in DOMAIN scans, n \in {0, 2} :
        /\ scans[i].pc = "scan"
        /\ Becomes([Settings EXCEPT !.wifi_networks = n,
                                    !.scans[i].n = n, !.scans[i].pc = "test"])

\* then the thread shows the networks if there are any (if
\* self.wifi_networks), or sleeps two seconds over the scanning screen,
ScanTests ==
    \E i \in DOMAIN scans :
        /\ scans[i].pc = "test"
        /\ Becomes(IF wifi_networks > 0
                   THEN [Settings EXCEPT !.current_menu = "wifi_networks",
                                         !.scans[i].pc = "select"]
                   ELSE [Settings EXCEPT !.scans[i].pc = "sleep"])

\* and last selects the first network, or returns to the WiFi menu.
ScanEnds ==
    \E i \in DOMAIN scans :
        /\ scans[i].pc \in {"select", "sleep"}
        /\ Becomes(IF scans[i].pc = "select"
                   THEN [Settings EXCEPT !.wifi_selected = 0,
                                         !.scans[i].pc = "done"]
                   ELSE [Settings EXCEPT !.current_menu = "wifi",
                                         !.scans[i].pc = "done"])

NextSettings ==
    \/ HandleInput
    \/ OnLaunch
    \/ ScanReturns
    \/ ScanTests
    \/ ScanEnds

SpecSettings == Init /\ [][NextSettings]_vars

\* ---------------------------------------------------------- the uploader
\* How many photos are queued, at most.
MaxPhotos == 2

\* self.retry_attempts
retry_attempts == 3

\* The uploader is as q, p, r, w say, and nothing else changes.
Uploader(q, p, r, w) ==
    /\ upload_queue' = q
    /\ processing' = p
    /\ uploading' = r
    /\ worker' = w
    /\ UNCHANGED <<spi, drivervars, launchervars, settingsvars, navvars, cameravars>>

\* queue_photo(filepath) of a file that exists: the entry is appended. (Of
\* a file that does not exist it returns False and queues nothing.)
QueuePhoto ==
    /\ Len(upload_queue) < MaxPhotos
    /\ Uploader(Append(upload_queue,
                       [uploaded |-> FALSE, upload_attempts |-> 0,
                        exists |-> TRUE, error |-> "None"]),
                processing, uploading, worker)

\* The file of a queued photo is removed from the disk.
RemoveFile ==
    \E i \in DOMAIN upload_queue :
        /\ upload_queue[i].exists
        /\ ~upload_queue[i].uploaded
        /\ Uploader([upload_queue EXCEPT ![i].exists = FALSE],
                    processing, uploading, worker)

\* Mutant of upload_single_photo: without the check of the retry limit.
upload_single_photo_unlimited(photo, copies) ==
    IF ~photo.exists THEN [photo EXCEPT !.error = "File not found"]
    ELSE IF copies
    THEN [photo EXCEPT !.upload_attempts = @ + 1, !.error = "None",
                       !.uploaded = TRUE]
    ELSE [photo EXCEPT !.upload_attempts = @ + 1, !.error = "copy"]

\* _upload_single_photo(photo): the photo as the call leaves it. copies
\* tells whether the copy to the share goes through.
upload_single_photo(photo, copies) ==
    IF ~photo.exists THEN [photo EXCEPT !.error = "File not found"]
    ELSE IF photo.upload_attempts >= retry_attempts
    THEN [photo EXCEPT !.error = "Max retries exceeded"]
    ELSE IF copies
    THEN [photo EXCEPT !.upload_attempts = @ + 1, !.error = "None",
                       !.uploaded = TRUE]
    ELSE [photo EXCEPT !.upload_attempts = @ + 1, !.error = "copy"]

\* The indexes of the entries that are not uploaded, in order.
pending_uploads ==
    SelectSeq([i \in DOMAIN upload_queue |-> i],
              LAMBDA i : ~upload_queue[i].uploaded)

\* _upload_worker wakes from its sleep: with pending uploads (and not
\* processing) it starts to go through them, else it sleeps again.
WorkerWakes ==
    /\ worker.pc = "sleep"
    /\ uploading
    /\ pending_uploads # <<>>
    /\ ~processing
    /\ Uploader(upload_queue, TRUE, uploading,
                [pc |-> "for", todo |-> pending_uploads])

\* The worker takes the next pending photo: it breaks off when the uploader
\* was stopped, else it tries to upload the photo.
WorkerUploads ==
    \E copies \in BOOLEAN :
        /\ worker.pc = "for"
        /\ worker.todo # <<>>
        /\ IF ~uploading
           THEN Uploader(upload_queue, processing, uploading,
                         [worker EXCEPT !.todo = <<>>])
           ELSE LET i == Head(worker.todo)
                IN Uploader([upload_queue EXCEPT
                                ![i] = upload_single_photo(@, copies)],
                            processing, uploading,
                            [worker EXCEPT !.todo = Tail(@)])

\* The pass is over: processing is reset and the worker sleeps.
WorkerSleeps ==
    /\ worker.pc = "for"
    /\ worker.todo = <<>>
    /\ Uploader(upload_queue, FALSE, uploading,
                [pc |-> IF uploading THEN "sleep" ELSE "end", todo |-> <<>>])

\* while self.running: the worker ends when the uploader was stopped.
WorkerEnds ==
    /\ worker.pc = "sleep"
    /\ ~uploading
    /\ Uploader(upload_queue, processing, uploading,
                [pc |-> "end", todo |-> <<>>])

\* cleanup(): the uploader is stopped.
UploaderCleanup ==
    /\ uploading
    /\ Uploader(upload_queue, processing, FALSE, worker)

Worker ==
    \/ WorkerWakes
    \/ WorkerUploads
    \/ WorkerSleeps
    \/ WorkerEnds

NextUploader ==
    \/ QueuePhoto
    \/ RemoveFile
    \/ UploaderCleanup
    \/ Worker

\* The worker is a thread of its own that the scheduler lets run: whenever
\* it has a step to take it takes one in the end.
SpecUploader == Init /\ [][NextUploader]_vars /\ WF_vars(Worker)

\* ------------------------------------------------------- the navigation
\* How long the clock runs, in polling periods.
MaxTicks == 14

\* time.sleep(0.05): the period of the main loop and of the repeat handler,
\* and self.debounce_time, self.repeat_delay, self.repeat_rate, all in ms.
period == 50
debounce_time == 200
repeat_delay == 500
repeat_rate == 100

\* self.pins, in the order get_input goes through them (of the five
\* directions of the switch the first two).
Dirs == <<"UP", "DOWN">>
DirSet == {Dirs[i] : i \in DOMAIN Dirs}

\* The navigation is as n says; the clock, the pins and the repeat thread
\* are as given.
Navigation(n, t, p, pl, r) ==
    /\ last_press' = n.last_press
    /\ press_count' = n.press_count
    /\ button_states' = n.button_states
    /\ repeat_active' = n.repeat_active
    /\ now' = t
    /\ pin' = p
    /\ polled' = pl
    /\ repeater' = r
    /\ UNCHANGED <<spi, drivervars, launchervars, settingsvars, uploadervars,
                   cameravars>>

Nav ==
    [last_press |-> last_press, press_count |-> press_count,
     button_states |-> button_states, repeat_active |-> repeat_active,
     ret |-> "None"]

\* Mutant of get_input: a press is reported without being remembered.
RECURSIVE get_input_forgetful(_, _, _, _)
get_input_forgetful(n, current_time, level, i) ==
    IF i > Len(Dirs) THEN n
    ELSE LET direction == Dirs[i]
         IN IF level[direction] /\ ~n.button_states[direction]
            THEN IF current_time - n.last_press[direction] >= debounce_time
                 THEN [n EXCEPT !.last_press[direction] = current_time,
                                !.press_count[direction] = 1,
                                !.ret = direction]
                 ELSE get_input_forgetful(n, current_time, level, i + 1)
            ELSE IF ~level[direction] /\ n.button_states[direction]
            THEN get_input_forgetful(
                     [n EXCEPT !.button_states[direction] = FALSE,
                               !.repeat_active[direction] = FALSE],
                     current_time, level, i + 1)
            ELSE get_input_forgetful(n, current_time, level, i + 1)

\* get_input() from direction i on, at current_time, with the pins at level:
\* the first direction whose press is new and out of its debounce window is
\* returned (n.ret), without a look at the directions after it; a release is
\* noted; a button held for repeat_delay starts repeating.
RECURSIVE get_input(_, _, _, _)
get_input(n, current_time, level, i) ==
    IF i > Len(Dirs) THEN n
    ELSE LET direction == Dirs[i]
         IN IF level[direction] /\ ~n.button_states[direction]
            THEN IF current_time - n.last_press[direction] >= debounce_time
                 THEN [n EXCEPT !.last_press[direction] = current_time,
                                !.button_states[direction] = TRUE,
                                !.press_count[direction] = 1,
                                !.ret = direction]
                 ELSE get_input(n, current_time, level, i + 1)
            ELSE IF ~level[direction] /\ n.button_states[direction]
            THEN get_input([n EXCEPT !.button_states[direction] = FALSE,
                                     !.repeat_active[direction] = FALSE],
                           current_time, level, i + 1)
            ELSE IF /\ level[direction] /\ n.button_states[direction]
                    /\ current_time - n.last_press[direction] >= repeat_delay
                    /\ ~n.repeat_active[direction]
            THEN get_input([n EXCEPT !.repeat_active[direction] = TRUE],
                           current_time, level, i + 1)
            ELSE get_input(n, current_time, level, i + 1)

\* The main loop (or wait_for_input) calls get_input(), once in a period,
\* and GPIO.input finds the pins at some level; nav_event is what the call
\* returned and event_time when each direction was returned last.
Poll ==
    /\ ~polled
    /\ \E level \in [DirSet -> BOOLEAN] :
           LET n == get_input(Nav, now, level, 1)
           IN /\ nav_event' = n.ret
              /\ event_time' = IF n.ret = "None" THEN event_time
                               ELSE [event_time EXCEPT ![n.ret] = now]
              /\ held' = [direction \in DirSet |->
                              /\ level[direction]
                              /\ held[direction] \/ n.ret = direction]
              /\ Navigation(n, now, level, TRUE, repeater)

\* A period passes after the call: the main loop polls again, and the repeat
\* handler wakes from its sleep.
Tick ==
    /\ polled
    /\ now < Boot + MaxTicks * period
    /\ UNCHANGED <<nav_event, event_time, held>>
    /\ Navigation(Nav, now + period, pin, FALSE,
                  IF repeater.pc = "sleep"
                  THEN [repeater EXCEPT !.pc = "time"] ELSE repeater)

\* _repeat_handler after the direction it is at: the next one, or the sleep
\* at the end of the loop.
after(r) ==
    IF r.i < Len(Dirs) THEN [r EXCEPT !.pc = "test", !.i = @ + 1]
    ELSE [r EXCEPT !.pc = "sleep"]

\* _repeat_handler: the thread reads the clock,
RepeatTime ==
    /\ repeater.pc = "time"
    /\ UNCHANGED <<nav_event, event_time, held>>
    /\ Navigation(Nav, now, pin, polled,
                  [pc |-> "test", current_time |-> now, i |-> 1])

\* tests the next direction (repeating, held, repeat_rate since the last
\* press or repeat),
RepeatTest ==
    /\ repeater.pc = "test"
    /\ UNCHANGED <<nav_event, event_time, held>>
    /\ Navigation(Nav, now, pin, polled,
          IF /\ repeat_active[Dirs[repeater.i]]
             /\ button_states[Dirs[repeater.i]]
             /\ repeater.current_time - last_press[Dirs[repeater.i]]
                    >= repeat_rate
          THEN [repeater EXCEPT !.pc = "repeat"]
          ELSE after(repeater))

\* and counts a repeat for it: last_press becomes the time it read.
Repeat ==
    /\ repeater.pc = "repeat"
    /\ UNCHANGED <<nav_event, event_time, held>>
    /\ Navigation([Nav EXCEPT
                      !.last_press[Dirs[repeater.i]] = repeater.current_time,
                      !.press_count[Dirs[repeater.i]] = @ + 1],
                  now, pin, polled, after(repeater))

NextNav ==
    \/ Poll
    \/ Tick
    \/ RepeatTime
    \/ RepeatTest
    \/ Repeat

SpecNav == Init /\ [][NextNav]_vars

\* ------------------------------------------------------- the camera app
\* How long the clock of the camera app runs, in seconds.
MaxSeconds == 6

\* The camera app as a record, for its methods to transform: its fields, the
\* clock (which the sleeps of a method move on) and the uploader's queue.
Camera ==
    [running |-> camera_running, show_ui |-> show_ui,
     ui_timeout |-> ui_timeout, last_photo_time |-> last_photo_time,
     photo_count |-> photo_count, capture_mode |-> capture_mode,
     now |-> now, upload_queue |-> upload_queue]

modes == <<"photo", "video", "burst">>

\* time.elapse(ms / 1000): the method takes that long.
elapse(c, ms) == [c EXCEPT !.now = @ + ms]

\* on_launch(); photos is what update_photo_count finds in the directory.
on_launch(c, photos) ==
    [c EXCEPT !.running = TRUE, !.show_ui = TRUE, !.ui_timeout = c.now + 5000,
              !.photo_count = photos]

on_exit(c) == [c EXCEPT !.running = FALSE]

\* run_frame(), the app running: the overlay is hidden once its time is over.
run_frame(c) ==
    IF c.now > c.ui_timeout THEN [c EXCEPT !.show_ui = FALSE] ELSE c

\* uploader.queue_photo(filepath) of the file the camera has just written.
queue_photo(c) ==
    [c EXCEPT !.upload_queue =
                  Append(@, [uploaded |-> FALSE, upload_attempts |-> 0,
                             exists |-> TRUE, error |-> "None"])]

\* Mutant of take_photo: without the test of the time.
take_photo_rapid(c, captures) ==
    LET c1 == [c EXCEPT !.last_photo_time = c.now]
    IN IF captures
       THEN elapse(queue_photo([elapse(c1, 100 + 200)
                                  EXCEPT !.photo_count = @ + 1]), 1500)
       ELSE elapse(elapse(c1, 100 + 200), 2000)

\* take_photo(); captures tells whether camera.capture writes the photo (it
\* raises otherwise). Less than a second after the last photo the call
\* returns at once. show_capture_feedback takes 0.1 s + 0.2 s,
\* show_capture_confirmation 1.5 s and show_error_message 2 s. (camera_ready
\* is True from init_camera on.)
take_photo(c, captures) ==
    IF c.now - c.last_photo_time < 1000 THEN c
    ELSE LET c1 == [c EXCEPT !.last_photo_time = c.now]
         IN IF captures
            THEN elapse(queue_photo([elapse(c1, 100 + 200)
                                       EXCEPT !.photo_count = @ + 1]), 1500)
            ELSE elapse(elapse(c1, 100 + 200), 2000)

toggle_ui(c) ==
    IF ~c.show_ui
    THEN [c EXCEPT !.show_ui = TRUE, !.ui_timeout = c.now + 10000]
    ELSE [c EXCEPT !.show_ui = FALSE]

\* cycle_capture_mode(direction) shows the new mode for a second.
cycle_capture_mode(c, direction) ==
    LET current_index == CHOOSE i \in 0..2 : modes[i + 1] = c.capture_mode
        new_index == (current_index + direction) % Len(modes)
    IN elapse([c EXCEPT !.capture_mode = modes[new_index + 1]], 1000)

\* The end of handle_input for every button but UP: "reset UI timeout on
\* any input".
reset_ui(c) == [c EXCEPT !.ui_timeout = c.now + 5000, !.show_ui = TRUE]

\* CameraApp.handle_input(nav_input)
camera_handle_input(c, nav_input, captures) ==
    IF nav_input = "CENTER" THEN reset_ui(take_photo(c, captures))
    ELSE IF nav_input = "UP" THEN on_exit(c)
    ELSE IF nav_input = "DOWN" THEN reset_ui(toggle_ui(c))
    ELSE IF nav_input = "LEFT" THEN reset_ui(cycle_capture_mode(c, -1))
    ELSE IF nav_input = "RIGHT" THEN reset_ui(cycle_capture_mode(c, 1))
    ELSE reset_ui(c)

\* The camera app is as c says, and the last button was nav_input.
CameraBecomes(c, nav_input) ==
    /\ c.now <= Boot + MaxSeconds * 1000
    /\ Len(c.upload_queue) <= MaxPhotos
    /\ camera_running' = c.running
    /\ show_ui' = c.show_ui
    /\ ui_timeout' = c.ui_timeout
    /\ last_photo_time' = c.last_photo_time
    /\ photo_count' = c.photo_count
    /\ capture_mode' = c.capture_mode
    /\ now' = c.now
    /\ upload_queue' = c.upload_queue
    /\ nav_event' = nav_input
    /\ UNCHANGED <<spi, drivervars, launchervars, settingsvars, processing,
                   uploading, worker, pin, last_press, press_count,
                   button_states, repeat_active, polled, repeater,
                   event_time, held, loop, leaving>>

\* The launcher launches the camera app.
CameraLaunch ==
    \E photos \in 0..MaxPhotos :
        /\ ~camera_running
        /\ CameraBecomes(on_launch(Camera, photos), "None")

\* The main loop hands a button to the camera app while it is on screen.
CameraInput ==
    \E nav_input \in {"UP", "DOWN", "LEFT", "RIGHT", "CENTER"},
       captures \in BOOLEAN :
        /\ camera_running
        /\ CameraBecomes(camera_handle_input(Camera, nav_input, captures),
                         nav_input)

\* The main loop calls run_frame() when no button was pressed.
CameraFrame ==
    /\ camera_running
    /\ CameraBecomes(run_frame(Camera), "None")

\* A second passes without a button.
Wait ==
    /\ CameraBecomes(elapse(Camera, 1000), "None")

\* The system clock, which time.time() reads, is set back by a second.
ClockBack ==
    /\ now - 1000 >= Boot
    /\ CameraBecomes(elapse(Camera, -1000), "None")

NextCamera ==
    \/ CameraLaunch
    \/ CameraInput
    \/ CameraFrame
    \/ Wait
    \/ ClockBack

SpecCamera == Init /\ [][NextCamera]_vars

\* ------------------------------------------- the screens of the main loop
\* The main loop by iterations, with the apps it hands the buttons to. The
\* screen, the selection and the time since the last button are as given,
\* the settings as in a, the camera app as in c; lp is where the iteration
\* is and lv whether its button made the app on screen exit. The clock
\* stands still here, and a scan the settings have started is still going on.
Screens(screen, selected, late, a, c, lp, lv) ==
    /\ Len(a.scans) <= MaxScans
    /\ current_screen' = screen
    /\ selected_app' = selected
    /\ expired' = late
    /\ current_menu' = a.current_menu
    /\ selected_item' = a.selected_item
    /\ should_exit_flag' = a.should_exit_flag
    /\ wifi_networks' = a.wifi_networks
    /\ wifi_selected' = a.wifi_selected
    /\ scans' = a.scans
    /\ camera_running' = c.running
    /\ show_ui' = c.show_ui
    /\ ui_timeout' = c.ui_timeout
    /\ photo_count' = c.photo_count
    /\ loop' = lp
    /\ leaving' = lv
    /\ UNCHANGED <<spi, drivervars, running, stack, signals, monitor,
                   uploadervars, navvars, last_photo_time, capture_mode>>

\* handle_navigation(nav_input) on the screen it finds: the launcher moves
\* its selection or goes to launch the selected app (its quick actions and
\* system information change nothing here), the camera app and the settings
\* get the button (of the camera's buttons UP, the one that leaves the app),
\* and the sleep screen wakes the launcher. An exception of the handler ends
\* the iteration.
handle_navigation(screen, selected, nav_input) ==
    IF screen = "launcher"
    THEN Screens(screen,
                 IF nav_input = "LEFT" THEN Max(0, selected - 1)
                 ELSE IF nav_input = "RIGHT"
                 THEN Min(Len(apps) - 1, selected + 1)
                 ELSE selected,
                 FALSE, Settings, Camera,
                 IF nav_input = "CENTER" THEN "launch" ELSE "render", FALSE)
    ELSE IF screen = "camera"
    THEN /\ nav_input = "UP"
         /\ Screens(screen, selected, FALSE, Settings,
                    camera_handle_input(Camera, nav_input, FALSE), "render",
                    TRUE)
    ELSE IF screen = "settings"
    THEN LET a == handle_input(Settings, nav_input)
         IN Screens(screen, selected, FALSE, [a EXCEPT !.raised = FALSE],
                    Camera, IF a.raised THEN "input" ELSE "render",
                    a.should_exit_flag)
    ELSE Screens("launcher", selected, FALSE, Settings, Camera, "render",
                 FALSE)

\* An iteration of run() begins: get_input() returns a button, which resets
\* last_activity and goes to handle_navigation, or none, and the time since
\* the last button grows, in the end beyond AUTO_SLEEP_TIME.
ScreenInput ==
    /\ loop = "input"
    /\ \/ \E late \in BOOLEAN :
              Screens(current_screen, selected_app, expired \/ late,
                      Settings, Camera, "render", FALSE)
       \/ \E nav_input \in {"UP", "DOWN", "LEFT", "RIGHT", "CENTER"} :
              handle_navigation(current_screen, selected_app, nav_input)

\* launch_selected_app() after its transition: the screen becomes the app's
\* and the app's on_launch() runs (the photos in the directory are the ones
\* counted before: none is taken here).
ScreenLaunch ==
    /\ loop = "launch"
    /\ IF apps[selected_app + 1] = "camera"
       THEN Screens("camera", selected_app, expired, Settings,
                    on_launch(Camera, photo_count), "render", FALSE)
       ELSE Screens("settings", selected_app, expired,
                    [Settings EXCEPT !.current_menu = "main",
                                     !.selected_item = 0,
                                     !.should_exit_flag = FALSE],
                    Camera, "render", FALSE)

\* The rest of the iteration: the screen is shown; an app on screen runs its
\* frame, and the launcher is back when run_frame() returns False (the
\* camera app not running, the settings with should_exit_flag).
ScreenRender ==
    /\ loop = "render"
    /\ IF current_screen = "camera"
       THEN IF camera_running
            THEN Screens(current_screen, selected_app, expired, Settings,
                         run_frame(Camera), "input", FALSE)
            ELSE Screens("launcher", selected_app, expired, Settings, Camera,
                         "input", FALSE)
       ELSE Screens(IF current_screen = "settings" /\ should_exit_flag
                    THEN "launcher" ELSE current_screen,
                    selected_app, expired, Settings, Camera, "input", FALSE)

NextScreens ==
    \/ ScreenInput
    \/ ScreenLaunch
    \/ ScreenRender
    \/ SystemMonitor
    \/ MonitorScreen
    \/ ShowSleepScreen

SpecScreens == Init /\ [][NextScreens]_vars

\* ------------------------------------------------------- reading the state
DrawingOps ==
    {"clear", "draw_text", "draw_rectangle", "draw_circle", "draw_line",
     "display_image"}

\* self.image as the application reads it.
Buffer == images[image]

\* The successful bus writes of the last call, in order.
Writes == SelectSeq(bus, LAMBDA e : e.k = "xfer")

\* The level of the data/command line when entry i of the log happened: the
\* last level driven before it.
RECURSIVE DcBefore(_)
DcBefore(i) ==
    IF i <= 1 THEN -1
    ELSE IF bus[i - 1].k = "gpio" /\ bus[i - 1].pin = "DC" THEN bus[i - 1].v
    ELSE DcBefore(i - 1)

RECURSIVE Concat(_)
Concat(ws) == IF ws = <<>> THEN <<>> ELSE Head(ws).data \o Concat(Tail(ws))

\* Where in the log the last call wrote an opcode: the bus writes made with
\* the data/command line low, failed ones excluded.
RECURSIVE CommandsFrom(_)
CommandsFrom(i) ==
    IF i > Len(bus) THEN <<>>
    ELSE IF bus[i].k = "xfer" /\ DcBefore(i) = 0
    THEN <<i>> \o CommandsFrom(i + 1)
    ELSE CommandsFrom(i + 1)

Commands == CommandsFrom(1)

\* The opcodes the last call wrote, in order.
Opcodes == [k \in 1..Len(Commands) |-> bus[Commands[k]].data[1]]

\* The parameter bytes written after the opcode at entry i of the log: the
\* write that follows the switch of the line to data mode.
Params(i) ==
    IF /\ i + 2 <= Len(bus)
       /\ bus[i + 1].k = "gpio" /\ bus[i + 1].pin = "DC" /\ bus[i + 1].v = 1
       /\ bus[i + 2].k = "xfer"
    THEN bus[i + 2].data
    ELSE <<>>

\* The levels the last call drove the reset line to, in order, and where in
\* the log it did so last.
ResetLevels ==
    LET es == SelectSeq(bus, LAMBDA e : e.k = "gpio" /\ e.pin = "RST")
    IN [k \in 1..Len(es) |-> es[k].v]

LastReset ==
    LET at == {i \in 1..Len(bus) : bus[i].k = "gpio" /\ bus[i].pin = "RST"}
    IN IF at = {} THEN 0 ELSE CHOOSE i \in at : \A j \in at : j <= i

\* The time the last call slept right after entry i of its log, before it
\* touched the hardware again, in milliseconds.
RECURSIVE SleptAfter(_)
SleptAfter(i) ==
    IF i + 1 <= Len(bus) /\ bus[i + 1].k = "sleep"
    THEN bus[i + 1].v + SleptAfter(i + 1)
    ELSE 0

\* The pixel bytes of the last call: every write but the opcode.
Stream == Concat(Tail(Writes))

\* ================================================================= claims

\* C1: on a driver whose init_display() has not completed, every drawing
\* call and every update()/flash call fails with NotReady.
C1_NotReadyBeforeInit ==
    (~initDone /\ ~cleanedUp
        /\ call.op \in DrawingOps \cup {"update", "flash_screen"})
    => result = "NotReady"

\* C2: after cleanup() has run, every later driver operation fails with
\* Closed, changes no pixel and reaches neither the bus nor a GPIO line.
C2_ClosedAfterCleanup ==
    (cleanedUp /\ call.op # "cleanup")
    => (result = "Closed" /\ bus = <<>>)

\* C3: an update() that returns writes the RAMWR opcode once, in command
\* mode, and then exactly WIDTH * HEIGHT * 2 pixel bytes in data mode, and
\* nothing else.
C3_UpdateOneFrame ==
    (call.op = "update" /\ result = "ok")
    => /\ bus[1] = Ev("gpio", "DC", 0, <<>>)
       /\ bus[2] = Ev("xfer", "", 0, <<RAMWR>>)
       /\ bus[3] = Ev("gpio", "DC", 1, <<>>)
       /\ \A i \in 4..Len(bus) : bus[i].k = "xfer" /\ DcBefore(i) = 1
       /\ Len(Stream) = WIDTH * HEIGHT * 2

C3_Witness ==
    /\ initDone /\ ~cleanedUp
    /\ call.op = "update" /\ result = "ok"
    /\ \E y \in Rows, x \in Cols : Buffer[y][x] # Black

\* C4: for every pixel (r, g, b) of an encoded buffer the codec sends two
\* bytes, high byte first, of the value (r >> 3) * 2^11 + (g >> 2) * 2^5 +
\* (b >> 3), from which the truncated components are read back exactly.
C4_Codec565 ==
    (call.op = "update" /\ result = "ok")
    => /\ Len(Stream) = 2 * WIDTH * HEIGHT
       /\ \A y \in Rows, x \in Cols :
            LET p == Buffer[y][x]
                hi == Stream[2 * (y * WIDTH + x) + 1]
                lo == Stream[2 * (y * WIDTH + x) + 2]
                v == hi * 256 + lo
            IN /\ hi \in 0..255 /\ lo \in 0..255
               /\ v = (p[1] \div 8) * 2048 + (p[2] \div 4) * 32 + (p[3] \div 8)
               /\ (v \div 2048) * 8 = p[1] - (p[1] % 8)
               /\ ((v \div 32) % 64) * 4 = p[2] - (p[2] % 4)
               /\ (v % 32) * 8 = p[3] - (p[3] % 8)

C4_Witness ==
    /\ call.op = "update" /\ result = "ok"
    /\ Buffer[0][0] = <<7, 3, 129>>

\* C5: the stream update() sends is the row-major concatenation of the codec
\* output of every buffer pixel: bytes 2i and 2i+1 encode the pixel at column
\* i mod WIDTH, row i div WIDTH.
C5_RowMajorStream ==
    (call.op = "update" /\ result = "ok")
    => \A i \in 0..(WIDTH * HEIGHT - 1) :
         <<Stream[2 * i + 1], Stream[2 * i + 2]>>
            = encode(Buffer[i \div WIDTH][i % WIDTH])

C5_Witness ==
    /\ call.op = "update" /\ result = "ok"
    /\ Buffer[0][1] # Buffer[1][0]

\* C6: for a rectangle that lies inside the panel, draw_rectangle(x, y, w, h,
\* fill) sets to fill exactly the pixels with column in [x, x+w) and row in
\* [y, y+h) of the buffer and leaves every other pixel as it was.
C6_RectangleHalfOpen ==
    [][(call'.op = "draw_rectangle" /\ call'.args[6] = None)
       => LET a == call'.args
          IN \A y \in Rows, x \in Cols :
               images'[image'][y][x] =
                   IF /\ a[1] <= x /\ x < a[1] + a[3]
                      /\ a[2] <= y /\ y < a[2] + a[4]
                   THEN a[5] ELSE images[image][y][x]]_vars

\* C7: clear(color) followed by reading the driver's buffer yields color for
\* every pixel, whatever the buffer held before.
C7_ClearFillsBuffer ==
    (call.op = "clear" /\ result = "ok")
    => \A y \in Rows, x \in Cols : Buffer[y][x] = call.args[1]

\* C8: a flash(color, duration) that returns leaves the buffer pixel for
\* pixel as it was immediately before the call.
C8_FlashRestoresBuffer ==
    [][(call'.op = "flash_screen" /\ result' = "ok")
       => images'[image'] = images[image]]_vars

C8_Witness ==
    /\ call.op = "flash_screen" /\ result = "ok"
    /\ \E y \in Rows, x \in Cols : Buffer[y][x] # Buffer[0][0]

\* C9: paste_image(source, x, y) of a source that sticks out of the panel
\* writes exactly the source pixels that land inside the buffer, leaves every
\* other buffer pixel unchanged, and raises no error.
C9_PasteClips ==
    [][(call'.op = "display_image" /\ call'.args[1].pil)
       => LET src == call'.args[1].px
              ox == call'.args[2]
              oy == call'.args[3]
          IN /\ result' = "ok"
             /\ \A y \in Rows, x \in Cols :
                  images'[image'][y][x] =
                      IF (y - oy) \in DOMAIN src /\ (x - ox) \in DOMAIN src[0]
                      THEN src[y - oy][x - ox] ELSE images[image][y][x]]_vars

C9_Witness ==
    /\ call.op = "display_image" /\ call.args[1].pil /\ result = "ok"
    /\ call.args[2] < 0 /\ call.args[3] + ImgH(call.args[1].px) > HEIGHT
    /\ Buffer[HEIGHT - 1][0] = call.args[1].px[0][1]
    /\ image # draw

\* C10: a second cleanup() on a driver whose bus handle the first released
\* completes without error and leaves the buffer, the bus handle, the reset
\* line and the data/command line as the first left them.
C10_CleanupIdempotent ==
    [][(cleanedUp /\ ~spi /\ call'.op = "cleanup")
       => /\ result' = "ok"
          /\ images'[image'] = images[image]
          /\ spi' = spi
          /\ rst' = rst
          /\ dc' = dc]_vars


\* C11: cleanup() never propagates an error. Whatever fails inside it, a bus
\* write of the final update(), the close of the bus handle or the write to
\* the reset line, whether the handle was open or already closed, the call
\* returns normally.
C11_CleanupNeverRaises ==
    call.op = "cleanup" => result = "ok"

\* A cleanup() returned although a step inside it had failed: one for each of
\* the three kinds of failure is reachable, this is the failed close.
C11_Witness ==
    /\ call.op = "cleanup"
    /\ result = "ok"
    /\ caught = OSError
    /\ \E i \in 1..Len(bus) : bus[i].k = "close_error"

\* C12 (as the code has it): an init_display() that returns has driven the
\* reset line high, low, high before any bus write and then written, in this
\* order, SWRESET (1), SLPOUT (17), frame rate (177, 178, 179), inversion
\* control (180), power (192..196), VCOM (197), INVOFF (32), MADCTL (54),
\* pixel format (58, parameter 5), then the addressing window CASET (42) and
\* RASET (43), both with 0..127, then the two gamma tables (224, 225) and
\* NORON (19), then display-on (41), and last the RAMWR (44) of its first
\* frame. The gamma tables follow the addressing window.
C12_InitOrder ==
    (call.op = "init_display" /\ result = "ok") =>
        /\ ResetLevels = <<1, 0, 1>>
        /\ LastReset < Commands[1]
        /\ Opcodes = <<1, 17, 177, 178, 179, 180, 192, 193, 194, 195, 196,
                       197, 32, 54, 58, 42, 43, 224, 225, 19, 41, 44>>
        /\ Params(Commands[15]) = <<5>>
        /\ Params(Commands[16]) = <<0, 0, 0, 127>>
        /\ Params(Commands[17]) = <<0, 0, 0, 127>>

\* An init_display() has returned, with all its commands on the bus.
C12_Witness ==
    /\ call.op = "init_display"
    /\ result = "ok"
    /\ Len(Commands) = 22

\* C12 (as the claim has it): in an init_display() that returns, no command
\* of the configuration table, the gamma tables included, is written after
\* the addressing window (CASET, RASET) is set, and display-on comes last of
\* the startup commands.
C12_NoConfigAfterWindow ==
    (call.op = "init_display" /\ result = "ok") =>
        \A i, j \in 1..Len(Opcodes) :
            /\ Opcodes[i] \in {42, 43}
            /\ Opcodes[j] \in {177, 178, 179, 180, 192, 193, 194, 195, 196,
                               197, 32, 54, 58, 224, 225}
            => j < i

\* C13: init_display() respects every settling delay. After it drives the
\* reset line low it waits at least 10 ms; after it releases the line again
\* at least 120 ms before the software reset; after the software reset (1)
\* at least 150 ms; after sleep-out (17) at least 500 ms; after display-on
\* (41) at least 120 ms before the first pixel write. Each wait is over before
\* the call touches the hardware again.
C13_SettlingDelays ==
    call.op = "init_display" =>
        \A i \in 1..Len(bus) :
            /\ (bus[i].k = "gpio" /\ bus[i].pin = "RST" /\ bus[i].v = 0)
                   => SleptAfter(i) >= 10
            /\ (/\ bus[i].k = "gpio" /\ bus[i].pin = "RST" /\ bus[i].v = 1
                /\ \E j \in 1..(i - 1) :
                       bus[j].k = "gpio" /\ bus[j].pin = "RST" /\ bus[j].v = 0)
                   => SleptAfter(i) >= 120
            /\ (bus[i].k = "xfer" /\ DcBefore(i) = 0 /\ bus[i].data = <<1>>)
                   => SleptAfter(i) >= 150
            /\ (bus[i].k = "xfer" /\ DcBefore(i) = 0 /\ bus[i].data = <<17>>)
                   => SleptAfter(i) >= 500
            /\ (bus[i].k = "xfer" /\ DcBefore(i) = 0 /\ bus[i].data = <<41>>)
                   => SleptAfter(i) >= 120

\* An init_display() has gone through all five waits and written its first
\* frame.
C13_Witness ==
    /\ call.op = "init_display"
    /\ result = "ok"
    /\ ResetLevels = <<1, 0, 1>>
    /\ {1, 17, 41} \subseteq {Opcodes[k] : k \in 1..Len(Opcodes)}
    /\ Opcodes[Len(Opcodes)] = RAMWR

\* C14: the extents never change. Every image object is WIDTH x HEIGHT in
\* every state; an init_display() that returns leaves the controller's
\* addressing window at columns 0..127 and rows 0..127 (the source's 128 x
\* 128); the controller never has another window configured; and no drawing
\* call, paste, update() or flash_screen() changes the window.
C14_ExtentsFixed ==
    [][/\ \A o \in DOMAIN images' :
              ImgW(images'[o]) = WIDTH /\ ImgH(images'[o]) = HEIGHT
       /\ panel'.caset \in {<<>>, <<0, FullWidth - 1>>}
       /\ panel'.raset \in {<<>>, <<0, FullHeight - 1>>}
       /\ (call'.op = "init_display" /\ result' = "ok")
              => /\ panel'.caset = <<0, 127>>
                 /\ panel'.raset = <<0, 127>>
       /\ call'.op \in DrawingOps \cup {"update", "flash_screen"}
              => /\ panel'.caset = panel.caset
                 /\ panel'.raset = panel.raset]_vars

\* After an init_display() and a flash_screen() a paste has returned: the
\* window is still the full panel and the buffer, by now the copy the flash
\* left, has its extent.
C14_Witness ==
    /\ call.op = "display_image"
    /\ call.args[1].pil
    /\ image = 1
    /\ panel.caset = <<0, 127>>
    /\ panel.raset = <<0, 127>>
    /\ ImgW(Buffer) = WIDTH /\ ImgH(Buffer) = HEIGHT

\* C15: a bus write that fails ends the call. It is the last thing the call
\* does to the hardware (no later write, no repeated write, no further GPIO
\* access or wait), and update(), flash_screen() and init_display() raise
\* the error to their caller.
C15_FailureStopsCall ==
    \A i \in 1..Len(bus) :
        bus[i].k = "xfer_error" =>
            /\ i = Len(bus)
            /\ call.op \in {"update", "flash_screen", "init_display"}
                   => result = OSError

\* A flash_screen() whose first frame failed after the opcode had gone out:
\* it raised, and neither the rest of that frame nor the second frame
\* followed.
C15_Witness ==
    /\ call.op = "flash_screen"
    /\ result = OSError
    /\ spi
    /\ Len(Writes) = 1
    /\ bus[Len(bus)].k = "xfer_error"

\* C16: a torn frame heals. An update(), whether it returns or a bus failure
\* cuts it short, leaves every image object and self.image as they were; and
\* when an update() returns on a configured panel (16-bit pixel format set by
\* a completed init_display(), not in reset), every cell of the display
\* memory holds the 5-6-5 value of the buffer pixel at its place in row-major
\* order, whatever torn frames came before.
C16_TornFrameHeals ==
    [][call'.op = "update" =>
          /\ images' = images
          /\ image' = image
          /\ (result' = "ok" /\ panel'.colmod = 5 /\ panel'.resx = 1) =>
                 \A k \in 1..PanelSize :
                     LET px == images'[image'][(k - 1) \div WIDTH][(k - 1) % WIDTH]
                     IN panel'.gram[k] = 2048 * (px[1] \div 8)
                                         + 32 * (px[2] \div 4) + (px[3] \div 8)
      ]_vars

\* A frame to the configured panel was cut short by a bus failure, and an
\* update() after it has returned: the display memory, first and last cell
\* included, shows the buffer, which is not black.
C16_Witness ==
    /\ call.op = "update"
    /\ result = "ok"
    /\ torn >= 1
    /\ panel.colmod = 5
    /\ Buffer[0][0] # Black
    /\ panel.gram[1] = 2048 * (Buffer[0][0][1] \div 8)
                        + 32 * (Buffer[0][0][2] \div 4) + (Buffer[0][0][3] \div 8)
    /\ panel.gram[PanelSize] # 0

\* C18: draw_text() with a size that has no font never fails and draws with
\* a supported size nearest to the requested one: no supported size is
\* closer to the request than the size of the font used (7 gives 8, 22 gives
\* 20 or 24).
C18_NearestFont ==
    (call.op = "draw_text" /\ call.args[5] \notin fonts) =>
        /\ result = "ok"
        /\ font \in fonts
        /\ \A s \in fonts :
               (IF font >= call.args[5] THEN font - call.args[5]
                ELSE call.args[5] - font)
               <= (IF s >= call.args[5] THEN s - call.args[5]
                   ELSE call.args[5] - s)

\* C19: in every state the surface the drawing primitives write to (the
\* image object self.draw is bound to) is the surface update() encodes
\* (self.image), so a primitive called after a flash_screen() shows in the
\* bytes of the next update().
C19_DrawSurfaceIsBuffer ==
    image = draw

\* C20: a flash_screen(color, duration) that returns has written exactly two
\* frames and nothing else: RAMWR and WIDTH * HEIGHT pixels that all encode
\* color, then, after one wait of duration, RAMWR and the pixels of the buffer
\* as it was on entry, which is the buffer after the call.
C20_FlashTwoFrames ==
    (call.op = "flash_screen" /\ result = "ok") =>
        LET n == 2 * WIDTH * HEIGHT
            sleeps == {i \in 1..Len(bus) : bus[i].k = "sleep"}
        IN /\ Len(Writes) = 4
           /\ Writes[1].data = <<RAMWR>> /\ Writes[3].data = <<RAMWR>>
           /\ Len(Writes[2].data) = n /\ Len(Writes[4].data) = n
           /\ \A k \in 1..(WIDTH * HEIGHT) :
                  SubSeq(Writes[2].data, 2 * k - 1, 2 * k) = encode(call.args[1])
           /\ Writes[4].data = rgb565_data(GetData(Buffer))
           /\ \E i \in sleeps :
                  /\ sleeps = {i}
                  /\ bus[i].v = call.args[2]
                  /\ Len(SelectSeq(SubSeq(bus, 1, i), LAMBDA e : e.k = "xfer")) = 2

\* C17: in the running application no two operations on the display driver
\* overlap: whenever one is in progress, no other activation, be it a
\* background thread or a signal handler, is inside a display operation too.
C17_NoOverlap ==
    \A i, j \in 1..Len(stack) :
        (stack[i].inop /\ stack[j].inop) => i = j

\* C21: a cleanup() on an active driver (initialized, bus open, nothing
\* failing) does exactly this to the hardware, in this order: it pushes one
\* frame, RAMWR and then WIDTH * HEIGHT black pixels, the buffer having been
\* cleared to black; it releases the bus handle; it drives the reset line
\* low. The reset line is not touched before the release and nothing is
\* written after it.
C21_CleanupOrder ==
    (call.op = "cleanup" /\ caught = NoExc) =>
        bus = << Ev("gpio", "DC", 0, <<>>),
                 Ev("xfer", "", 0, <<RAMWR>>),
                 Ev("gpio", "DC", 1, <<>>),
                 Ev("xfer", "", 0, [i \in 1..(2 * WIDTH * HEIGHT) |-> 0]),
                 Ev("close", "", 0, <<>>),
                 Ev("gpio", "RST", 0, <<>>) >>

\* The commands init_display() sends before its first frame, in order.
InitCommands == SelectSeq(init_sequence, LAMBDA st : st.k = "cmd")

\* C22: in every call, every bus write is framed as a command: a write made
\* in command mode is one opcode byte alone, directly after the line was
\* driven low; a write made in data mode either directly follows the switch
\* of the line to data mode that directly follows an opcode write (the
\* parameters, in one transfer), or continues the pixel data of a RAMWR; no
\* write is empty and none is made before the line was driven. In an
\* init_display() that returns, every command is followed by exactly its
\* parameters in that one transfer, and a command without parameters by no
\* switch to data mode and no second transfer. Pixel bytes (every write of a
\* frame after its RAMWR opcode) go out in data mode only.
C22_CommandFraming ==
    /\ \A i \in 1..Len(bus) : bus[i].k = "xfer" =>
          /\ Len(bus[i].data) >= 1
          /\ DcBefore(i) \in {0, 1}
          /\ DcBefore(i) = 0 =>
                /\ Len(bus[i].data) = 1
                /\ bus[i - 1] = Ev("gpio", "DC", 0, <<>>)
          /\ DcBefore(i) = 1 =>
                \/ /\ i >= 3
                   /\ bus[i - 1] = Ev("gpio", "DC", 1, <<>>)
                   /\ bus[i - 2].k = "xfer"
                   /\ DcBefore(i - 2) = 0
                \/ \E j \in 1..(i - 3) :
                      /\ bus[j].k = "xfer"
                      /\ DcBefore(j) = 0
                      /\ bus[j].data = <<RAMWR>>
                      /\ \A m \in (j + 2)..i : bus[m].k = "xfer"
    /\ (call.op = "init_display" /\ result = "ok") =>
          /\ Len(Commands) = Len(InitCommands) + 1
          /\ \A k \in 1..Len(InitCommands) :
                /\ bus[Commands[k]].data = <<InitCommands[k].v>>
                /\ Params(Commands[k]) = InitCommands[k].data
                /\ InitCommands[k].data = <<>> =>
                      /\ bus[Commands[k] + 1].k \in {"sleep", "gpio"}
                      /\ bus[Commands[k] + 1] # Ev("gpio", "DC", 1, <<>>)
    /\ (call.op \in {"update", "flash_screen", "cleanup"}) =>
          \A i \in 1..Len(bus) :
              (bus[i].k = "xfer" /\ bus[i].data # <<RAMWR>>) => DcBefore(i) = 1

\* An init_display() has returned: it sent commands with parameters (frame
\* rate, 177) and commands without (SWRESET).
C22_Witness ==
    /\ call.op = "init_display"
    /\ result = "ok"
    /\ Params(Commands[3]) = <<1, 44, 45>>
    /\ Params(Commands[1]) = <<>>

\* Where chunk k of the last call starts in the stream it sent.
Offset(k) == Len(Concat(SubSeq(Writes, 1, k - 1)))

\* C23: a _send_data(data) writes consecutive chunks of at most 4096 bytes,
\* every one but the last of exactly 4096, so that every chunk starts at an
\* even byte offset; the chunks written are, concatenated, a prefix of data,
\* and all of data when no write failed; nothing is written for no data; a
\* frame of the 128 x 128 panel goes out as 8 chunks of 4096 bytes.
C23_Chunks ==
    call.op = "_send_data" =>
        LET data == Bytes(call.args[1], call.args[2])
            sent == Concat(Writes)
        IN /\ \A k \in 1..Len(Writes) :
                 /\ Len(Writes[k].data) \in 1..chunk_size
                 /\ k < Len(Writes) => Len(Writes[k].data) = chunk_size
                 /\ Offset(k) = (k - 1) * chunk_size
                 /\ Offset(k) % 2 = 0
                 /\ DcBefore(k + 1) = 1
           /\ Len(sent) <= Len(data)
           /\ sent = SubSeq(data, 1, Len(sent))
           /\ result = "ok" => sent = data
           /\ (result = "ok" /\ Len(data) = 2 * FullWidth * FullHeight) =>
                 /\ Len(Writes) = 8
                 /\ \A k \in 1..8 : Len(Writes[k].data) = 4096

\* A whole frame of the 128 x 128 panel went out.
C23_Witness ==
    /\ call.op = "_send_data"
    /\ result = "ok"
    /\ call.args[1] = 2 * FullWidth * FullHeight
    /\ Len(Writes) = 8

\* C24: the constructor and the drawing calls (clear, draw_text,
\* draw_rectangle, draw_circle, draw_line, display_image) do nothing to the
\* hardware: their log is empty (no bus write, no line driven, no sleep), and
\* the step of a drawing call leaves the reset line, the data/command line,
\* the bus handle and the controller as they were. Whenever the hardware was
\* touched, the call was init_display, update, flash_screen or cleanup.
C24_DrawingIsOffBus ==
    /\ [](/\ call.op \in DrawingOps \cup {"__init__"} => bus = <<>>
          /\ bus # <<>> =>
                call.op \in {"init_display", "update", "flash_screen", "cleanup"})
    /\ [][call'.op \in DrawingOps =>
              /\ rst' = rst
              /\ dc' = dc
              /\ spi' = spi
              /\ panel' = panel]_vars

\* A drawing call has changed the buffer of an initialized driver.
C24_Witness ==
    /\ call.op \in DrawingOps
    /\ initDone
    /\ spi
    /\ rst = 1
    /\ Buffer # NewImage(WIDTH, HEIGHT, Black)

\* C25: a draw_rectangle, draw_circle or draw_line never raises, whatever
\* its geometry: coordinates negative or beyond the panel, sizes zero or
\* negative.
C25_GeometryNeverRaises ==
    call.op \in {"draw_rectangle", "draw_circle", "draw_line"} => result = "ok"

\* C26: once shutdown() has run display.cleanup(), which leaves the bus
\* handle closed, the application calls no display operation any more: no
\* activation of the main thread, the interrupted run() included, enters a
\* display operation while the handle is closed.
C26_NoDisplayAfterCleanup ==
    [][~spi =>
          \A i \in 1..Len(stack') :
              (i <= Len(stack) /\ stack'[i].inop) => stack[i].inop]_vars

\* C27: the screen becomes "sleep" only from "launcher": in every step of
\* the application, whichever thread takes it, that switches the screen to
\* "sleep", the screen was "launcher" before.
C27_SleepOnlyFromLauncher ==
    [][(current_screen' = "sleep" /\ current_screen # "sleep") =>
          current_screen = "launcher"]_vars

\* C28: a scan the user has cancelled with LEFT does not change the menu any
\* more: no step of a cancelled scan thread changes current_menu. (The
\* cancelling LEFT itself leaves the menu at "wifi".)
C28_CancelledScanIsSilent ==
    [][\A i \in DOMAIN scans :
          (scans[i].cancelled /\ scans'[i] # scans[i]) =>
              current_menu' = current_menu]_vars

\* C29: whenever the current menu is a structured menu, selected_item is an
\* index of one of its items.
C29_SelectedItemValid ==
    current_menu \in DOMAIN menu_structure =>
        selected_item \in 0..(Len(menu_structure[current_menu]) - 1)

\* A queued photo has reached its final state: it is uploaded, or it has
\* failed for good, with upload_attempts at retry_attempts.
Final(i) ==
    /\ i \in DOMAIN upload_queue
    /\ \/ upload_queue[i].uploaded
       \/ upload_queue[i].upload_attempts >= retry_attempts

\* C30: with the worker scheduled fairly, every photo that queue_photo has
\* accepted reaches its final state in the end, unless the uploader is
\* stopped first.
C30_EveryPhotoSettles ==
    \A i \in 1..MaxPhotos :
        (i \in DOMAIN upload_queue) ~> (Final(i) \/ ~uploading)

\* C31: of every photo in the queue upload_attempts never exceeds
\* retry_attempts; and a photo that has been attempted retry_attempts times
\* without success is not copied again: no step counts another attempt for
\* it or marks it uploaded.
C31_RetryLimit ==
    /\ [](\A i \in DOMAIN upload_queue :
              upload_queue[i].upload_attempts <= retry_attempts)
    /\ [][\A i \in DOMAIN upload_queue :
              (/\ ~upload_queue[i].uploaded
               /\ upload_queue[i].upload_attempts >= retry_attempts) =>
                  /\ upload_queue'[i].upload_attempts
                         = upload_queue[i].upload_attempts
                  /\ ~upload_queue'[i].uploaded]_vars

\* A photo has failed retry_attempts times and the worker has come to it
\* once more, to find the limit reached.
C31_Witness ==
    \E i \in DOMAIN upload_queue :
        /\ ~upload_queue[i].uploaded
        /\ upload_queue[i].upload_attempts = retry_attempts
        /\ upload_queue[i].error = "Max retries exceeded"

C33_EventsDebounced ==
    [][\A direction \in DirSet :
           (/\ ~polled /\ polled' /\ nav_event' = direction
            /\ event_time[direction] >= 0) =>
               now - event_time[direction] >= debounce_time]_vars

\* C34: DOWN toggles the overlay of the camera app: when handle_input("DOWN")
\* returns, show_ui is the opposite of what it was before the call.
C34_DownToggles ==
    [][nav_event' = "DOWN" => show_ui' = ~show_ui]_vars

\* C36: take_photo() takes one photo in a second at the most. While the app
\* runs, a step that sets last_photo_time, changes photo_count or queues an
\* upload comes a second or more after the last accepted take_photo(); and
\* a step that changes photo_count or the queue is a capture: it adds one
\* to photo_count and one entry, not uploaded and not attempted, to the queue.
C36_OnePhotoPerSecond ==
    [][camera_running =>
          /\ (\/ last_photo_time' # last_photo_time
              \/ photo_count' # photo_count
              \/ upload_queue' # upload_queue) =>
                 /\ now - last_photo_time >= 1000
                 /\ last_photo_time' = now
          /\ (photo_count' # photo_count \/ upload_queue' # upload_queue) =>
                 /\ photo_count' = photo_count + 1
                 /\ Len(upload_queue') = Len(upload_queue) + 1
                 /\ SubSeq(upload_queue', 1, Len(upload_queue)) = upload_queue
                 /\ ~upload_queue'[Len(upload_queue')].uploaded
                 /\ upload_queue'[Len(upload_queue')].upload_attempts = 0]_vars

\* CENTER was pressed less than a second after a photo was taken and queued,
\* and take_photo() returned at once.
C36_Witness ==
    /\ nav_event = "CENTER"
    /\ camera_running
    /\ now - last_photo_time < 1000
    /\ photo_count > 0
    /\ Len(upload_queue) > 0

\* C35: leaving an app returns to the launcher, and the app runs again when
\* it is launched again. The iteration of the main loop whose button made the
\* app on screen exit (UP in the camera app, Exit in the settings) ends with
\* the launcher as the screen; in every other iteration run_frame() of the
\* app on screen returns True, the first one after a launch included, and
\* the screen stays the app's.
C35_LeavingReturns ==
    [][(loop = "render" /\ loop' = "input") =>
          /\ leaving => current_screen' = "launcher"
          /\ (~leaving /\ current_screen \in {"camera", "settings"}) =>
                 current_screen' = current_screen]_vars

====
